---- MODULE Spec2Model ----
(***************************************************************************)
(* High-availability manager of the server (ha.c): the ha_node registry    *)
(* in the shared database, the manager loop of every server process, the   *)
(* notification channel to the parent process and the parent-side facade.  *)
(*                                                                         *)
(* Time is counted in seconds.  The database clock, the managers' clocks    *)
(* and the parents' clocks all read the variable now.  A manager blocked   *)
(* in zbx_ipc_service_recv wakes as soon as a message or its timeout is    *)
(* due, so the clock advances only when no manager step is due.            *)
(***************************************************************************)
EXTENDS Integers, Sequences, FiniteSets, TLC

(* ---- bounds of the model ---- *)
MaxTime == 12
LongTime == 27
MaxFaults == 3
LongFaults == 2
ServiceFaults == 1
MaxRequests == 1
StartTime == 21
RestartSpan == 6
ChannelTime == 6
MaxPending == 3
FailoverTime == 31
LiveTime == 8
StopRequests == 2

(* ---- program constants ---- *)
ZBX_NODE_STATUS_ERROR == -2
ZBX_NODE_STATUS_UNKNOWN == -1
ZBX_NODE_STATUS_STANDBY == 0
ZBX_NODE_STATUS_STOPPED == 1
ZBX_NODE_STATUS_UNAVAILABLE == 2
ZBX_NODE_STATUS_ACTIVE == 3
ZBX_HA_POLL_PERIOD == 5
ZBX_HA_DEFAULT_FAILOVER_DELAY == 60
ZBX_DEFAULT_SERVER_PORT == 10051

(* The server processes sharing the database, and the HA_NODE_NAME each    *)
(* one is configured with ("" is standalone).  A process's ha_sessionid is *)
(* its own number; 0 is the empty cuid.                                    *)
Procs == {1, 2}
NameConfigs == { <<"a", "b">>, <<"a", "a">>, <<"", "a">> }
FailoverDelays == {10}
ServiceDelays == {10, ZBX_HA_DEFAULT_FAILOVER_DELAY}
NewDelays == {20}
Fates == {"ok", "drop", "fail"}
NoError == <<>>

VARIABLES
    now,        \* the clock (database timestamp, zbx_time(), time(NULL))
    nodes,      \* table ha_node, ordered by ha_nodeid
    nextId,     \* the next cuid zbx_new_cuid returns
    cfgDelay,   \* config.ha_failover_delay
    cfgAudit,   \* config.auditlog_enabled
    auditlog,   \* table auditlog: the audit entries committed so far
    link,       \* link[p]: process p can reach the database
    cfgName,    \* cfgName[p]: CONFIG_HA_NODE_NAME of process p
    info,       \* info[p]: zbx_ha_info_t of p's manager
    pc,         \* position of p's manager in ha_manager_thread
    op,         \* the multi-transaction operation p's manager is inside
    rmId,       \* ha_nodeid read by the removal p's manager is inside
    listTime,   \* database timestamp read by the node listing p's manager is inside
    ticks_num, nextcheck, tick,   \* loop counters of ha_manager_thread
    main_proc,  \* the registered parent client (FALSE is NULL)
    inbox,      \* messages queued to p's manager service
    chan,       \* frames queued on p's notification socket (manager to parent)
    reply,      \* last reply sent on an administrative connection
    pstat,      \* parent: the ha_status the parent holds
    last_hb,    \* parent: static last_hb of zbx_ha_recv_status
    pdelay,     \* parent: static ha_failover_delay of zbx_ha_recv_status
    perr,       \* parent: error text returned by zbx_ha_recv_status
    upSince,    \* upSince[p]: second at which link[p] last came up (0 when down)
    faults,     \* connectivity events the environment may still cause
    requests,   \* requests the parents and the administrator may still send
    horizon,    \* last second of the run
    envTurn,    \* TRUE at the start of a second, before any manager step
    lazy        \* TRUE when the parents leave frames pending on their sockets

vars == << now, nodes, nextId, cfgDelay, cfgAudit, auditlog, link, cfgName, info, pc, op,
           rmId, listTime, ticks_num, nextcheck, tick, main_proc, inbox, chan, reply,
           pstat, last_hb, pdelay, perr, upSince, faults, requests, horizon, envTurn,
           lazy >>

(***************************************************************************)
(* Pure helpers                                                            *)
(***************************************************************************)
ZBX_HA_IS_CLUSTER(p) == cfgName[p] # ""

(* NodeAddress of every process: a host, and a port where one is given (0 is none) *)
CONFIG_NODE_ADDRESS ==
    [p \in Procs |-> [host |-> <<"host", p>>,
                      port |-> IF p = 1 THEN 0 ELSE ZBX_DEFAULT_SERVER_PORT + p]]

(* ha_get_external_address: the configured host and port, 10051 when no port is given *)
ha_get_external_address(p) ==
    [address |-> CONFIG_NODE_ADDRESS[p].host,
     port |-> IF CONFIG_NODE_ADDRESS[p].port = 0 THEN ZBX_DEFAULT_SERVER_PORT
              ELSE CONFIG_NODE_ADDRESS[p].port]

DbOk(db_status) == db_status = "ok"

zbx_cuid_empty(id) == id = 0

(* variant: a row is available one second longer *)
ha_is_available_late(failover_delay, lastaccess, db_time) ==
    ~(lastaccess + failover_delay < db_time)

ha_is_available(failover_delay, lastaccess, db_time) ==
    ~(lastaccess + failover_delay <= db_time)

(* index of the first row named name, 0 when there is none *)
ha_find_node_by_name(rows, name) ==
    LET S == {i \in 1..Len(rows) : rows[i].name = name}
    IN  IF S = {} THEN 0 ELSE CHOOSE i \in S : \A j \in S : i <= j

(* variant: a later error replaces the one held *)
ha_set_error_last(inf, err) ==
    [inf EXCEPT !.error = err, !.ha_status = ZBX_NODE_STATUS_ERROR]

(* variant: the error status is set without its reason *)
ha_set_error_blank(inf, err) ==
    IF inf.ha_status = ZBX_NODE_STATUS_ERROR THEN inf
    ELSE [inf EXCEPT !.ha_status = ZBX_NODE_STATUS_ERROR]

ha_set_error(inf, err) ==
    IF inf.ha_status = ZBX_NODE_STATUS_ERROR THEN inf
    ELSE [inf EXCEPT !.error = err, !.ha_status = ZBX_NODE_STATUS_ERROR]

(* ha_db_begin: reconnect when the connection was down, then begin *)
ha_db_begin(inf, up, fate) ==
    LET s1 == IF inf.db_status = "down" THEN (IF up THEN "ok" ELSE "down")
              ELSE inf.db_status
        s2 == IF DbOk(s1)
              THEN (IF ~up THEN "down" ELSE IF fate = "fail" THEN "fail" ELSE "ok")
              ELSE s1
        i2 == [inf EXCEPT !.db_status = s2]
    IN  IF s2 = "fail" THEN ha_set_error(i2, <<"database error">>) ELSE i2

ha_db_rollback(inf, up) ==
    [inf EXCEPT !.db_status = IF up THEN "ok" ELSE "down"]

(* ha_db_execute: a statement the database rejects ("abort") leaves the    *)
(* hard failure in db_status; the error is raised by the commit            *)
ha_db_execute(inf, fate) ==
    IF DbOk(inf.db_status) /\ fate = "abort"
    THEN [inf EXCEPT !.db_status = "fail"] ELSE inf

(* variant: a connection lost at commit is a fatal error *)
ha_db_commit_fatal(inf, fate) ==
    LET s == IF DbOk(inf.db_status)
             THEN (IF fate = "drop" THEN "down" ELSE "ok")
             ELSE inf.db_status
        i2 == [inf EXCEPT !.db_status = s]
    IN  IF s # "ok" THEN ha_set_error(i2, <<"database error">>) ELSE i2

(* ha_db_commit: the commit is lost when the connection drops at commit *)
ha_db_commit(inf, fate) ==
    LET s == IF DbOk(inf.db_status)
             THEN (IF fate = "drop" THEN "down" ELSE "ok")
             ELSE inf.db_status
        i2 == [inf EXCEPT !.db_status = s]
    IN  IF s = "fail" THEN ha_set_error(i2, <<"database error">>) ELSE i2

ha_check_standalone_config(inf, rows, db_time) ==
    LET bad == {i \in 1..Len(rows) :
                    /\ rows[i].name # ""
                    /\ rows[i].status # ZBX_NODE_STATUS_STOPPED
                    /\ ha_is_available(inf.failover_delay, rows[i].lastaccess, db_time)}
    IN  IF bad = {} THEN [ret |-> TRUE, activate |-> TRUE, info |-> inf]
        ELSE LET i == CHOOSE k \in bad : \A j \in bad : k <= j
             IN  [ret |-> FALSE, activate |-> TRUE,
                  info |-> ha_set_error(inf,
                      <<"cannot change mode to standalone while HA node is",
                        rows[i].name, rows[i].status>>)]

RECURSIVE cluster_scan(_, _, _, _, _, _)
cluster_scan(inf, name, rows, db_time, i, activate) ==
    IF i > Len(rows) THEN [ret |-> TRUE, activate |-> activate, info |-> inf]
    ELSE IF \/ rows[i].status = ZBX_NODE_STATUS_STOPPED
            \/ ~ha_is_available(inf.failover_delay, rows[i].lastaccess, db_time)
         THEN cluster_scan(inf, name, rows, db_time, i + 1, activate)
    ELSE IF rows[i].name = ""
         THEN [ret |-> FALSE, activate |-> activate,
               info |-> ha_set_error(inf,
                   <<"cannot change mode to HA while standalone node is", rows[i].status>>)]
    ELSE IF rows[i].name = name
         THEN [ret |-> FALSE, activate |-> activate,
               info |-> ha_set_error(inf, <<"found duplicate node", rows[i].status, name>>)]
    ELSE cluster_scan(inf, name, rows, db_time, i + 1,
             IF rows[i].status \in {ZBX_NODE_STATUS_ACTIVE, ZBX_NODE_STATUS_STANDBY}
             THEN FALSE ELSE activate)

(* variant: the node always starts in active mode *)
ha_check_cluster_config_active(inf, name, rows, db_time) ==
    [cluster_scan(inf, name, rows, db_time, 1, TRUE) EXCEPT !.activate = TRUE]

ha_check_cluster_config(inf, name, rows, db_time) ==
    cluster_scan(inf, name, rows, db_time, 1, TRUE)

(* the admission check ha_db_create_node and ha_db_register_node both run *)
Admission(p, inf, rows, db_time) ==
    IF ZBX_HA_IS_CLUSTER(p)
    THEN ha_check_cluster_config(inf, cfgName[p], rows, db_time)
    ELSE ha_check_standalone_config(inf, rows, db_time)

(* update ha_node set ... where ha_nodeid = id *)
UpdateRow(rows, id, f(_)) ==
    [i \in 1..Len(rows) |-> IF rows[i].id = id THEN f(rows[i]) ELSE rows[i]]

DeleteRow(rows, id) == SelectSeq(rows, LAMBDA r : r.id # id)

StatusUpdate(inf) ==
    [code |-> "update", status |-> inf.ha_status,
     failover_delay |-> inf.failover_delay, error |-> inf.error]

Heartbeat == [code |-> "heartbeat"]

(* ha_db_update_config: the manager's copy of the global settings *)
ha_db_update_config(inf) ==
    [inf EXCEPT !.failover_delay = cfgDelay, !.auditlog = cfgAudit]

(* zbx_audit_ha_create_entry, zbx_audit_settings_create_entry *)
AuditEntry(action, entity, id) == [action |-> action, entity |-> entity, id |-> id]

(* zbx_audit_init(enabled) followed by the entries and zbx_audit_flush_once: *)
(* the entries are written to table auditlog unless auditing is disabled    *)
zbx_audit_flush_once(log, enabled, entries) ==
    IF enabled = 0 THEN log ELSE log \o entries


(***************************************************************************)
(* Initial state: every server process has just called zbx_ha_start with   *)
(* status unknown; its manager is about to run the registration at start   *)
(* and the parent's Register message is already queued.                    *)
(***************************************************************************)
InitInfo ==
    [ha_nodeid |-> 0, ha_status |-> ZBX_NODE_STATUS_UNKNOWN, db_status |-> "down",
     failover_delay |-> ZBX_HA_DEFAULT_FAILOVER_DELAY, auditlog |-> 0,
     lastaccess_active |-> 0, offline_ticks_active |-> 0, error |-> NoError]

BootWith(names, links, delays, f, r, h, infos) ==
    /\ now = 1
    /\ nodes = <<>>
    /\ nextId = 1
    /\ cfgDelay \in delays
    /\ auditlog = <<>>
    /\ link \in links
    /\ upSince = [p \in Procs |-> IF link[p] THEN 1 ELSE 0]
    /\ cfgName \in {[p \in Procs |-> c[p]] : c \in names}
    /\ info \in [Procs -> infos]
    /\ pc = [p \in Procs |-> "start"]
    /\ op = [p \in Procs |-> "create"]
    /\ rmId = [p \in Procs |-> 0]
    /\ listTime = [p \in Procs |-> 0]
    /\ ticks_num = [p \in Procs |-> 0]
    /\ nextcheck = [p \in Procs |-> ZBX_HA_POLL_PERIOD]
    /\ tick = [p \in Procs |-> 1]
    /\ main_proc = [p \in Procs |-> FALSE]
    /\ inbox = [p \in Procs |-> << [code |-> "register", client |-> "parent", data |-> 0] >>]
    /\ chan = [p \in Procs |-> <<>>]
    /\ reply = [p \in Procs |-> <<>>]
    /\ pstat = [p \in Procs |-> ZBX_NODE_STATUS_UNKNOWN]
    /\ last_hb = [p \in Procs |-> 0]
    /\ pdelay = [p \in Procs |-> ZBX_HA_DEFAULT_FAILOVER_DELAY]
    /\ perr = [p \in Procs |-> NoError]
    /\ faults = f
    /\ requests = r
    /\ horizon = h
    /\ envTurn = TRUE

(* every manager has just been started with status unknown *)
Boot(names, links, delays, f, r, h) ==
    BootWith(names, links, delays, f, r, h, {InitInfo})

(* auditing disabled, and parents that read their socket at once *)
InitWith(names, links, delays, f, r, h) ==
    /\ cfgAudit = 0
    /\ lazy = FALSE
    /\ Boot(names, links, delays, f, r, h)

(***************************************************************************)
(* Outcome of a transaction.  "fail" is a hard database failure reported   *)
(* at begin, "drop" a connection lost at commit.  Both are environment     *)
(* events.                                                                 *)
(***************************************************************************)
FateAllowed(p, fate) == fate = "ok" \/ (faults > 0 /\ link[p])

Charge(p, fate) ==
    /\ faults' = IF fate = "ok" THEN faults ELSE faults - 1
    /\ link' = IF fate = "drop" THEN [link EXCEPT ![p] = FALSE] ELSE link
    /\ upSince' = IF fate = "drop" THEN [upSince EXCEPT ![p] = 0] ELSE upSince

(* a frame is pending on some notification socket *)
Pending == \E p \in Procs : chan[p] # <<>>

(***************************************************************************)
(* The parent polls its notification socket all the time, so a manager     *)
(* runs on only when no frame is pending; a lazy parent leaves up to       *)
(* MaxPending frames unread.  What no manager step changes.                *)
(***************************************************************************)
ManagerStep ==
    /\ IF lazy THEN \A p \in Procs : Len(chan[p]) < MaxPending ELSE ~Pending
    /\ envTurn' = FALSE
    /\ UNCHANGED << now, cfgAudit, cfgName, horizon, requests, pstat, last_hb, pdelay, perr,
                    lazy >>

(***************************************************************************)
(* ha_manager_thread: what follows ha_db_register_node / ha_check_nodes    *)
(***************************************************************************)
(* while (nextcheck <= ticks_num) nextcheck += delay; *)
AdvanceCheck(nc, tn, delay) ==
    IF nc <= tn THEN nc + delay * (((tn - nc) \div delay) + 1) ELSE nc

(* variant: the frame carries the default failover delay *)
ha_update_parent_default(q, inf) ==
    Append(q, [StatusUpdate(inf) EXCEPT !.failover_delay = ZBX_HA_DEFAULT_FAILOVER_DELAY])

ha_update_parent(q, inf) == Append(q, StatusUpdate(inf))

ha_send_heartbeat(q) == Append(q, Heartbeat)

(* variant: the first check of a standby node is not delayed *)
StartTailSame(p, inf) ==
    /\ chan' = chan
    /\ ticks_num' = ticks_num
    /\ IF inf.ha_status = ZBX_NODE_STATUS_ERROR
       THEN /\ pc' = [pc EXCEPT ![p] = "pause"]
            /\ tick' = [tick EXCEPT ![p] = now + ZBX_HA_POLL_PERIOD]
            /\ nextcheck' = nextcheck
       ELSE /\ pc' = [pc EXCEPT ![p] = "run"]
            /\ tick' = tick
            /\ nextcheck' = [nextcheck EXCEPT ![p] = ZBX_HA_POLL_PERIOD]

(* the registration at start has returned *)
StartTail(p, inf) ==
    /\ chan' = chan
    /\ ticks_num' = ticks_num
    /\ IF inf.ha_status = ZBX_NODE_STATUS_ERROR
       THEN /\ pc' = [pc EXCEPT ![p] = "pause"]
            /\ tick' = [tick EXCEPT ![p] = now + ZBX_HA_POLL_PERIOD]
            /\ nextcheck' = nextcheck
       ELSE /\ pc' = [pc EXCEPT ![p] = "run"]
            /\ tick' = tick
            /\ nextcheck' = [nextcheck EXCEPT ![p] =
                   IF inf.ha_status = ZBX_NODE_STATUS_STANDBY
                   THEN 2 * ZBX_HA_POLL_PERIOD ELSE ZBX_HA_POLL_PERIOD]

(* variant: the error status is not reported either *)
NotifyDueNoError(p, old_status, inf) ==
    /\ main_proc[p]
    /\ old_status # inf.ha_status
    /\ inf.ha_status \notin {ZBX_NODE_STATUS_UNKNOWN, ZBX_NODE_STATUS_ERROR}

(* variant: the parent is notified after every status check *)
NotifyDueAlways(p, old_status, inf) == main_proc[p]

(* the status check of a loop tick has returned: is the parent notified *)
NotifyDue(p, old_status, inf) ==
    /\ main_proc[p]
    /\ old_status # inf.ha_status
    /\ inf.ha_status # ZBX_NODE_STATUS_UNKNOWN

(* variant: the heartbeat does not depend on the database *)
HeartbeatDueOffline(p, inf) == main_proc[p]

HeartbeatDue(p, inf) == main_proc[p] /\ DbOk(inf.db_status)

TickTail(p, old_status, inf, tn) ==
    LET q1 == IF NotifyDue(p, old_status, inf)
              THEN ha_update_parent(chan[p], inf) ELSE chan[p]
    IN  IF inf.ha_status = ZBX_NODE_STATUS_ERROR
        THEN /\ chan' = [chan EXCEPT ![p] = q1]
             /\ pc' = [pc EXCEPT ![p] = "pause"]
             /\ tick' = [tick EXCEPT ![p] = now + ZBX_HA_POLL_PERIOD]
             /\ nextcheck' = nextcheck
        ELSE /\ chan' = [chan EXCEPT ![p] =
                    IF HeartbeatDue(p, inf) THEN ha_send_heartbeat(q1) ELSE q1]
             /\ pc' = pc
             /\ tick' = [tick EXCEPT ![p] = now + 1]
             /\ nextcheck' = [nextcheck EXCEPT ![p] = AdvanceCheck(nextcheck[p], tn,
                    IF DbOk(inf.db_status) THEN ZBX_HA_POLL_PERIOD ELSE 1)]

(* ha_db_register_node has returned with info inf *)
RegisterDone(p, inf) ==
    /\ info' = [info EXCEPT ![p] = inf]
    /\ op' = [op EXCEPT ![p] = "none"]
    /\ IF pc[p] = "start"
       THEN StartTail(p, inf)
       ELSE /\ TickTail(p, ZBX_NODE_STATUS_UNKNOWN, inf, ticks_num[p])
            /\ ticks_num' = ticks_num

(* ha_db_create_node has returned with info inf *)
CreateDone(p, inf) ==
    IF zbx_cuid_empty(inf.ha_nodeid)
    THEN RegisterDone(p, inf)
    ELSE /\ info' = [info EXCEPT ![p] = inf]
         /\ op' = [op EXCEPT ![p] = "update"]
         /\ UNCHANGED << pc, tick, nextcheck, ticks_num, chan >>

(***************************************************************************)
(* ha_db_create_node, first part: begin, read the nodes without a lock,    *)
(* read the config, look the own name up, run the admission check.         *)
(***************************************************************************)
RegRead(p) ==
    /\ op[p] = "create"
    /\ \E fate \in Fates :
        /\ FateAllowed(p, fate)
        /\ Charge(p, fate)
        /\ LET inf1 == ha_db_begin(info[p], link[p], fate)
               inf2 == ha_db_update_config(inf1)
               k == ha_find_node_by_name(nodes, cfgName[p])
               adm == Admission(p, inf2, nodes, now)
               inf3 == ha_db_commit(inf2, fate)
           IN  IF ~DbOk(inf1.db_status)
               THEN CreateDone(p, inf1)
               ELSE IF k # 0
               THEN CreateDone(p, IF DbOk(inf3.db_status)
                                  THEN [inf3 EXCEPT !.ha_nodeid = nodes[k].id]
                                  ELSE inf3)
               ELSE IF ~adm.ret
               THEN CreateDone(p, ha_db_rollback(adm.info, link[p]))
               ELSE /\ info' = [info EXCEPT ![p] = inf2]
                    /\ op' = [op EXCEPT ![p] = "insert"]
                    /\ UNCHANGED << pc, tick, nextcheck, ticks_num, chan >>
    /\ ManagerStep
    /\ UNCHANGED << nodes, nextId, cfgDelay, auditlog, rmId, listTime, main_proc, inbox, reply >>

(* table ha_node is keyed by ha_nodeid and has no other constraint *)
ha_node_accepts(rows, id, name) == \A i \in 1..Len(rows) : rows[i].id # id

(* insert into ha_node (ha_nodeid,name,status,lastaccess) values (...); the *)
(* columns the statement does not name are left unset                      *)
ha_node_insert(rows, id, name, db_time) ==
    Append(rows, [id |-> id, name |-> name, status |-> ZBX_NODE_STATUS_STOPPED,
                  lastaccess |-> db_time, address |-> "", port |-> 0, sessionid |-> 0])

(***************************************************************************)
(* ha_db_create_node, second part: insert the row and commit.              *)
(***************************************************************************)
RegInsert(p) ==
    /\ op[p] = "insert"
    /\ \E fate \in Fates :
        /\ FateAllowed(p, fate)
        /\ Charge(p, fate)
        /\ LET s == IF ~link[p] THEN "down"
                    ELSE IF fate = "fail" \/ ~ha_node_accepts(nodes, nextId, cfgName[p])
                    THEN "fail" ELSE "ok"
               inf1 == ha_db_commit([info[p] EXCEPT !.db_status = s], fate)
               done == DbOk(inf1.db_status)
           IN  /\ nodes' = IF done
                           THEN ha_node_insert(nodes, nextId, cfgName[p], now)
                           ELSE nodes
               /\ nextId' = IF done THEN nextId + 1 ELSE nextId
               /\ auditlog' = IF done
                              THEN zbx_audit_flush_once(auditlog, inf1.auditlog,
                                       << AuditEntry("add", "node", nextId) >>)
                              ELSE auditlog
               /\ CreateDone(p, IF done THEN [inf1 EXCEPT !.ha_nodeid = nextId] ELSE inf1)
    /\ ManagerStep
    /\ UNCHANGED << cfgDelay, rmId, listTime, main_proc, inbox, reply >>

(***************************************************************************)
(* ha_db_register_node, second transaction: lock the nodes, run the        *)
(* admission check again, write status, lastaccess and session.            *)
(***************************************************************************)
RegUpdate(p) ==
    /\ op[p] = "update"
    /\ \E fate \in Fates :
        /\ FateAllowed(p, fate)
        /\ Charge(p, fate)
        /\ LET inf1 == ha_db_begin(info[p], link[p], fate)
               adm == Admission(p, inf1, nodes, now)
               k == ha_find_node_by_name(nodes, cfgName[p])
               ha_status == IF adm.activate THEN ZBX_NODE_STATUS_ACTIVE
                            ELSE ZBX_NODE_STATUS_STANDBY
               ext == ha_get_external_address(p)
               Upd(r) == [r EXCEPT !.lastaccess = now, !.sessionid = p,
                              !.status = IF ha_status # nodes[k].status
                                         THEN ha_status ELSE r.status,
                              !.address = IF ext.address # nodes[k].address
                                          THEN ext.address ELSE r.address,
                              !.port = IF ext.port # nodes[k].port
                                       THEN ext.port ELSE r.port]
               inf2 == ha_db_commit(inf1, fate)
           IN  IF ~DbOk(inf1.db_status)
               THEN UNCHANGED << nodes, auditlog >> /\ RegisterDone(p, inf1)
               ELSE IF ~adm.ret
               THEN /\ UNCHANGED << nodes, auditlog >>
                    /\ RegisterDone(p, ha_db_rollback(adm.info, link[p]))
               ELSE IF k = 0
               THEN /\ UNCHANGED << nodes, auditlog >>
                    /\ RegisterDone(p, ha_db_rollback(
                           ha_set_error(inf1, <<"cannot find server node", cfgName[p]>>), link[p]))
               ELSE IF DbOk(inf2.db_status)
               THEN /\ nodes' = UpdateRow(nodes, inf1.ha_nodeid, Upd)
                    /\ auditlog' = zbx_audit_flush_once(auditlog, inf1.auditlog,
                                       << AuditEntry("update", "node", inf1.ha_nodeid) >>)
                    /\ RegisterDone(p, [inf2 EXCEPT !.ha_status = ha_status])
               ELSE UNCHANGED << nodes, auditlog >> /\ RegisterDone(p, inf2)
    /\ ManagerStep
    /\ UNCHANGED << nextId, cfgDelay, rmId, listTime, main_proc, inbox, reply >>


(***************************************************************************)
(* ha_check_nodes and the two liveness checks it runs                      *)
(***************************************************************************)
(* variant: a standby row expires one second later *)
StandbyExpiredLate(inf, r, db_time) ==
    /\ r.status = ZBX_NODE_STATUS_STANDBY
    /\ db_time > r.lastaccess + inf.failover_delay

StandbyExpired(inf, r, db_time) ==
    /\ r.status = ZBX_NODE_STATUS_STANDBY
    /\ db_time >= r.lastaccess + inf.failover_delay

ha_check_standby_nodes(inf, rows, db_time) ==
    [i \in 1..Len(rows) |->
        IF StandbyExpired(inf, rows[i], db_time)
        THEN [rows[i] EXCEPT !.status = ZBX_NODE_STATUS_UNAVAILABLE]
        ELSE rows[i]]

(* the audit entries of ha_check_standby_nodes *)
StandbyAudit(inf, rows, db_time) ==
    LET E == SelectSeq(rows, LAMBDA r : StandbyExpired(inf, r, db_time))
    IN  [i \in 1..Len(E) |-> AuditEntry("update", "node", E[i].id)]

(* variant: the failover is due one tick earlier *)
FailoverDueEarly(inf) ==
    (inf.failover_delay \div ZBX_HA_POLL_PERIOD) < inf.offline_ticks_active

(* failover_delay / ZBX_HA_POLL_PERIOD + 1 < offline_ticks_active *)
FailoverDue(inf) ==
    (inf.failover_delay \div ZBX_HA_POLL_PERIOD) + 1 < inf.offline_ticks_active

(* variant: the node claims active and leaves the row of its peer *)
ha_check_active_node_alone(inf, rows, ha_status) ==
    LET A == {i \in 1..Len(rows) : rows[i].status = ZBX_NODE_STATUS_ACTIVE}
        i == IF A = {} THEN Len(rows) + 1 ELSE CHOOSE k \in A : \A j \in A : k <= j
        counted == IF rows[i].lastaccess # inf.lastaccess_active
                   THEN [inf EXCEPT !.lastaccess_active = rows[i].lastaccess,
                                    !.offline_ticks_active = 0]
                   ELSE [inf EXCEPT !.offline_ticks_active = @ + 1]
    IN  IF i <= Len(rows) /\ rows[i].name = ""
        THEN [ret |-> FALSE, ha_status |-> ha_status, unavailable_index |-> 0,
              info |-> ha_set_error(inf, <<"found active standalone node in HA mode">>)]
        ELSE IF i = Len(rows) + 1 \/ rows[i].id = inf.ha_nodeid
        THEN [ret |-> TRUE, ha_status |-> ZBX_NODE_STATUS_ACTIVE, unavailable_index |-> 0,
              info |-> inf]
        ELSE IF FailoverDue(counted)
        THEN [ret |-> TRUE, ha_status |-> ZBX_NODE_STATUS_ACTIVE, unavailable_index |-> 0,
              info |-> counted]
        ELSE [ret |-> TRUE, ha_status |-> ha_status, unavailable_index |-> 0,
              info |-> counted]

ha_check_active_node(inf, rows, ha_status) ==
    LET A == {i \in 1..Len(rows) : rows[i].status = ZBX_NODE_STATUS_ACTIVE}
        i == IF A = {} THEN Len(rows) + 1 ELSE CHOOSE k \in A : \A j \in A : k <= j
        counted == IF rows[i].lastaccess # inf.lastaccess_active
                   THEN [inf EXCEPT !.lastaccess_active = rows[i].lastaccess,
                                    !.offline_ticks_active = 0]
                   ELSE [inf EXCEPT !.offline_ticks_active = @ + 1]
    IN  IF i <= Len(rows) /\ rows[i].name = ""
        THEN [ret |-> FALSE, ha_status |-> ha_status, unavailable_index |-> 0,
              info |-> ha_set_error(inf, <<"found active standalone node in HA mode">>)]
        ELSE IF i = Len(rows) + 1 \/ rows[i].id = inf.ha_nodeid
        THEN [ret |-> TRUE, ha_status |-> ZBX_NODE_STATUS_ACTIVE, unavailable_index |-> 0,
              info |-> inf]
        ELSE IF FailoverDue(counted)
        THEN [ret |-> TRUE, ha_status |-> ZBX_NODE_STATUS_ACTIVE, unavailable_index |-> i,
              info |-> counted]
        ELSE [ret |-> TRUE, ha_status |-> ha_status, unavailable_index |-> 0,
              info |-> counted]

(* variant: the row only has to carry some session *)
SessionOwnedAny(p, r) == ~zbx_cuid_empty(r.sessionid)

(* zbx_cuid_compare(ha_sessionid, node->ha_sessionid) of process p *)
SessionOwned(p, r) == r.sessionid = p

(* variant: an active node whose row is not active steps down when the row *)
(* of another node is                                                      *)
ha_check_nodes_yield(p, inf0, rows, up, fate) ==
    LET inf1 == ha_db_begin(inf0, up, fate)
        k == ha_find_node_by_name(rows, cfgName[p])
        inf2 == ha_db_update_config(
                    [inf1 EXCEPT !.ha_nodeid = IF zbx_cuid_empty(@) THEN rows[k].id ELSE @])
        act == ha_check_active_node(inf2, rows, inf1.ha_status)
        own == inf1.ha_status = ZBX_NODE_STATUS_ACTIVE
        rows1 == IF ZBX_HA_IS_CLUSTER(p) /\ own
                 THEN ha_check_standby_nodes(inf2, rows, now) ELSE rows
        inf3 == IF ZBX_HA_IS_CLUSTER(p) /\ ~own THEN act.info ELSE inf2
        ha_status == IF ZBX_HA_IS_CLUSTER(p) /\ ~own THEN act.ha_status
                     ELSE IF /\ rows[k].status # ZBX_NODE_STATUS_ACTIVE
                             /\ \E i \in 1..Len(rows) : rows[i].status = ZBX_NODE_STATUS_ACTIVE
                     THEN ZBX_NODE_STATUS_STANDBY
                     ELSE inf1.ha_status
        unavailable_index == IF ZBX_HA_IS_CLUSTER(p) /\ ~own THEN act.unavailable_index ELSE 0
        Own(r) == [r EXCEPT !.lastaccess = now,
                            !.status = IF ha_status # rows[k].status THEN ha_status ELSE @]
        rows2 == UpdateRow(rows1, inf3.ha_nodeid, Own)
        rows3 == IF unavailable_index = 0 THEN rows2
                 ELSE UpdateRow(rows2, rows[unavailable_index].id,
                          LAMBDA r : [r EXCEPT !.status = ZBX_NODE_STATUS_UNAVAILABLE])
        inf4 == ha_db_commit(ha_db_execute(inf3, fate), fate)
        audit == (IF ZBX_HA_IS_CLUSTER(p) /\ own THEN StandbyAudit(inf2, rows, now) ELSE <<>>)
                 \o (IF ha_status # rows[k].status
                     THEN << AuditEntry("update", "node", rows[k].id) >> ELSE <<>>)
                 \o (IF unavailable_index # 0
                     THEN << AuditEntry("update", "node", rows[unavailable_index].id) >>
                     ELSE <<>>)
    IN  IF ~DbOk(inf1.db_status)
        THEN [info |-> inf1, nodes |-> rows, audit |-> <<>>]
        ELSE IF k = 0
        THEN [info |-> ha_db_rollback(
                  ha_set_error(inf1, <<"cannot find server node", cfgName[p]>>), up),
              nodes |-> rows, audit |-> <<>>]
        ELSE IF ~SessionOwned(p, rows[k])
        THEN [info |-> ha_db_rollback(
                  ha_set_error(inf1, <<"the server HA registry record has changed ownership">>), up),
              nodes |-> rows, audit |-> <<>>]
        ELSE IF ZBX_HA_IS_CLUSTER(p) /\ ~own /\ ~act.ret
        THEN [info |-> ha_db_rollback(act.info, up), nodes |-> rows, audit |-> <<>>]
        ELSE IF DbOk(inf4.db_status)
        THEN [info |-> [inf4 EXCEPT !.ha_status = ha_status], nodes |-> rows3,
              audit |-> audit]
        ELSE [info |-> inf4, nodes |-> rows, audit |-> <<>>]

(* variant: the statements of a transaction that fails stay written *)
ha_check_nodes_kept(p, inf0, rows, up, fate) ==
    LET inf1 == ha_db_begin(inf0, up, fate)
        k == ha_find_node_by_name(rows, cfgName[p])
        inf2 == ha_db_update_config(
                    [inf1 EXCEPT !.ha_nodeid = IF zbx_cuid_empty(@) THEN rows[k].id ELSE @])
        act == ha_check_active_node(inf2, rows, inf1.ha_status)
        own == inf1.ha_status = ZBX_NODE_STATUS_ACTIVE
        rows1 == IF ZBX_HA_IS_CLUSTER(p) /\ own
                 THEN ha_check_standby_nodes(inf2, rows, now) ELSE rows
        inf3 == IF ZBX_HA_IS_CLUSTER(p) /\ ~own THEN act.info ELSE inf2
        ha_status == IF ZBX_HA_IS_CLUSTER(p) /\ ~own THEN act.ha_status ELSE inf1.ha_status
        unavailable_index == IF ZBX_HA_IS_CLUSTER(p) /\ ~own THEN act.unavailable_index ELSE 0
        Own(r) == [r EXCEPT !.lastaccess = now,
                            !.status = IF ha_status # rows[k].status THEN ha_status ELSE @]
        rows2 == UpdateRow(rows1, inf3.ha_nodeid, Own)
        rows3 == IF unavailable_index = 0 THEN rows2
                 ELSE UpdateRow(rows2, rows[unavailable_index].id,
                          LAMBDA r : [r EXCEPT !.status = ZBX_NODE_STATUS_UNAVAILABLE])
        inf4 == ha_db_commit(ha_db_execute(inf3, fate), fate)
        audit == (IF ZBX_HA_IS_CLUSTER(p) /\ own THEN StandbyAudit(inf2, rows, now) ELSE <<>>)
                 \o (IF ha_status # rows[k].status
                     THEN << AuditEntry("update", "node", rows[k].id) >> ELSE <<>>)
                 \o (IF unavailable_index # 0
                     THEN << AuditEntry("update", "node", rows[unavailable_index].id) >>
                     ELSE <<>>)
    IN  IF ~DbOk(inf1.db_status)
        THEN [info |-> inf1, nodes |-> rows, audit |-> <<>>]
        ELSE IF k = 0
        THEN [info |-> ha_db_rollback(
                  ha_set_error(inf1, <<"cannot find server node", cfgName[p]>>), up),
              nodes |-> rows, audit |-> <<>>]
        ELSE IF ~SessionOwned(p, rows[k])
        THEN [info |-> ha_db_rollback(
                  ha_set_error(inf1, <<"the server HA registry record has changed ownership">>), up),
              nodes |-> rows, audit |-> <<>>]
        ELSE IF ZBX_HA_IS_CLUSTER(p) /\ ~own /\ ~act.ret
        THEN [info |-> ha_db_rollback(act.info, up), nodes |-> rows, audit |-> <<>>]
        ELSE IF DbOk(inf4.db_status)
        THEN [info |-> [inf4 EXCEPT !.ha_status = ha_status], nodes |-> rows3,
              audit |-> audit]
        ELSE [info |-> inf4, nodes |-> rows3, audit |-> <<>>]

(* variant: a check that finds no row of its name is skipped *)
ha_check_nodes_skip(p, inf0, rows, up, fate) ==
    LET inf1 == ha_db_begin(inf0, up, fate)
        k == ha_find_node_by_name(rows, cfgName[p])
        inf2 == ha_db_update_config(
                    [inf1 EXCEPT !.ha_nodeid = IF zbx_cuid_empty(@) THEN rows[k].id ELSE @])
        act == ha_check_active_node(inf2, rows, inf1.ha_status)
        own == inf1.ha_status = ZBX_NODE_STATUS_ACTIVE
        rows1 == IF ZBX_HA_IS_CLUSTER(p) /\ own
                 THEN ha_check_standby_nodes(inf2, rows, now) ELSE rows
        inf3 == IF ZBX_HA_IS_CLUSTER(p) /\ ~own THEN act.info ELSE inf2
        ha_status == IF ZBX_HA_IS_CLUSTER(p) /\ ~own THEN act.ha_status ELSE inf1.ha_status
        unavailable_index == IF ZBX_HA_IS_CLUSTER(p) /\ ~own THEN act.unavailable_index ELSE 0
        Own(r) == [r EXCEPT !.lastaccess = now,
                            !.status = IF ha_status # rows[k].status THEN ha_status ELSE @]
        rows2 == UpdateRow(rows1, inf3.ha_nodeid, Own)
        rows3 == IF unavailable_index = 0 THEN rows2
                 ELSE UpdateRow(rows2, rows[unavailable_index].id,
                          LAMBDA r : [r EXCEPT !.status = ZBX_NODE_STATUS_UNAVAILABLE])
        inf4 == ha_db_commit(ha_db_execute(inf3, fate), fate)
        audit == (IF ZBX_HA_IS_CLUSTER(p) /\ own THEN StandbyAudit(inf2, rows, now) ELSE <<>>)
                 \o (IF ha_status # rows[k].status
                     THEN << AuditEntry("update", "node", rows[k].id) >> ELSE <<>>)
                 \o (IF unavailable_index # 0
                     THEN << AuditEntry("update", "node", rows[unavailable_index].id) >>
                     ELSE <<>>)
    IN  IF ~DbOk(inf1.db_status)
        THEN [info |-> inf1, nodes |-> rows, audit |-> <<>>]
        ELSE IF k = 0
        THEN [info |-> ha_db_rollback(inf1, up), nodes |-> rows, audit |-> <<>>]
        ELSE IF ~SessionOwned(p, rows[k])
        THEN [info |-> ha_db_rollback(
                  ha_set_error(inf1, <<"the server HA registry record has changed ownership">>), up),
              nodes |-> rows, audit |-> <<>>]
        ELSE IF ZBX_HA_IS_CLUSTER(p) /\ ~own /\ ~act.ret
        THEN [info |-> ha_db_rollback(act.info, up), nodes |-> rows, audit |-> <<>>]
        ELSE IF DbOk(inf4.db_status)
        THEN [info |-> [inf4 EXCEPT !.ha_status = ha_status], nodes |-> rows3,
              audit |-> audit]
        ELSE [info |-> inf4, nodes |-> rows, audit |-> <<>>]

(* variant: a check whose commit fails forgets what it counted *)
ha_check_nodes_uncounted(p, inf0, rows, up, fate) ==
    LET inf1 == ha_db_begin(inf0, up, fate)
        k == ha_find_node_by_name(rows, cfgName[p])
        inf2 == ha_db_update_config(
                    [inf1 EXCEPT !.ha_nodeid = IF zbx_cuid_empty(@) THEN rows[k].id ELSE @])
        act == ha_check_active_node(inf2, rows, inf1.ha_status)
        own == inf1.ha_status = ZBX_NODE_STATUS_ACTIVE
        rows1 == IF ZBX_HA_IS_CLUSTER(p) /\ own
                 THEN ha_check_standby_nodes(inf2, rows, now) ELSE rows
        inf3 == IF ZBX_HA_IS_CLUSTER(p) /\ ~own THEN act.info ELSE inf2
        ha_status == IF ZBX_HA_IS_CLUSTER(p) /\ ~own THEN act.ha_status ELSE inf1.ha_status
        unavailable_index == IF ZBX_HA_IS_CLUSTER(p) /\ ~own THEN act.unavailable_index ELSE 0
        Own(r) == [r EXCEPT !.lastaccess = now,
                            !.status = IF ha_status # rows[k].status THEN ha_status ELSE @]
        rows2 == UpdateRow(rows1, inf3.ha_nodeid, Own)
        rows3 == IF unavailable_index = 0 THEN rows2
                 ELSE UpdateRow(rows2, rows[unavailable_index].id,
                          LAMBDA r : [r EXCEPT !.status = ZBX_NODE_STATUS_UNAVAILABLE])
        inf4 == ha_db_commit(ha_db_execute(inf3, fate), fate)
        audit == (IF ZBX_HA_IS_CLUSTER(p) /\ own THEN StandbyAudit(inf2, rows, now) ELSE <<>>)
                 \o (IF ha_status # rows[k].status
                     THEN << AuditEntry("update", "node", rows[k].id) >> ELSE <<>>)
                 \o (IF unavailable_index # 0
                     THEN << AuditEntry("update", "node", rows[unavailable_index].id) >>
                     ELSE <<>>)
    IN  IF ~DbOk(inf1.db_status)
        THEN [info |-> inf1, nodes |-> rows, audit |-> <<>>]
        ELSE IF k = 0
        THEN [info |-> ha_db_rollback(
                  ha_set_error(inf1, <<"cannot find server node", cfgName[p]>>), up),
              nodes |-> rows, audit |-> <<>>]
        ELSE IF ~SessionOwned(p, rows[k])
        THEN [info |-> ha_db_rollback(
                  ha_set_error(inf1, <<"the server HA registry record has changed ownership">>), up),
              nodes |-> rows, audit |-> <<>>]
        ELSE IF ZBX_HA_IS_CLUSTER(p) /\ ~own /\ ~act.ret
        THEN [info |-> ha_db_rollback(act.info, up), nodes |-> rows, audit |-> <<>>]
        ELSE IF DbOk(inf4.db_status)
        THEN [info |-> [inf4 EXCEPT !.ha_status = ha_status], nodes |-> rows3,
              audit |-> audit]
        ELSE [info |-> [inf4 EXCEPT !.lastaccess_active = inf0.lastaccess_active,
                                    !.offline_ticks_active = inf0.offline_ticks_active],
              nodes |-> rows, audit |-> <<>>]

(* ha_check_nodes of process p: the new info and the new table *)
ha_check_nodes(p, inf0, rows, up, fate) ==
    LET inf1 == ha_db_begin(inf0, up, fate)
        k == ha_find_node_by_name(rows, cfgName[p])
        inf2 == ha_db_update_config(
                    [inf1 EXCEPT !.ha_nodeid = IF zbx_cuid_empty(@) THEN rows[k].id ELSE @])
        act == ha_check_active_node(inf2, rows, inf1.ha_status)
        own == inf1.ha_status = ZBX_NODE_STATUS_ACTIVE
        rows1 == IF ZBX_HA_IS_CLUSTER(p) /\ own
                 THEN ha_check_standby_nodes(inf2, rows, now) ELSE rows
        inf3 == IF ZBX_HA_IS_CLUSTER(p) /\ ~own THEN act.info ELSE inf2
        ha_status == IF ZBX_HA_IS_CLUSTER(p) /\ ~own THEN act.ha_status ELSE inf1.ha_status
        unavailable_index == IF ZBX_HA_IS_CLUSTER(p) /\ ~own THEN act.unavailable_index ELSE 0
        Own(r) == [r EXCEPT !.lastaccess = now,
                            !.status = IF ha_status # rows[k].status THEN ha_status ELSE @]
        rows2 == UpdateRow(rows1, inf3.ha_nodeid, Own)
        rows3 == IF unavailable_index = 0 THEN rows2
                 ELSE UpdateRow(rows2, rows[unavailable_index].id,
                          LAMBDA r : [r EXCEPT !.status = ZBX_NODE_STATUS_UNAVAILABLE])
        inf4 == ha_db_commit(ha_db_execute(inf3, fate), fate)
        audit == (IF ZBX_HA_IS_CLUSTER(p) /\ own THEN StandbyAudit(inf2, rows, now) ELSE <<>>)
                 \o (IF ha_status # rows[k].status
                     THEN << AuditEntry("update", "node", rows[k].id) >> ELSE <<>>)
                 \o (IF unavailable_index # 0
                     THEN << AuditEntry("update", "node", rows[unavailable_index].id) >>
                     ELSE <<>>)
    IN  IF ~DbOk(inf1.db_status)
        THEN [info |-> inf1, nodes |-> rows, audit |-> <<>>]
        ELSE IF k = 0
        THEN [info |-> ha_db_rollback(
                  ha_set_error(inf1, <<"cannot find server node", cfgName[p]>>), up),
              nodes |-> rows, audit |-> <<>>]
        ELSE IF ~SessionOwned(p, rows[k])
        THEN [info |-> ha_db_rollback(
                  ha_set_error(inf1, <<"the server HA registry record has changed ownership">>), up),
              nodes |-> rows, audit |-> <<>>]
        ELSE IF ZBX_HA_IS_CLUSTER(p) /\ ~own /\ ~act.ret
        THEN [info |-> ha_db_rollback(act.info, up), nodes |-> rows, audit |-> <<>>]
        ELSE IF DbOk(inf4.db_status)
        THEN [info |-> [inf4 EXCEPT !.ha_status = ha_status], nodes |-> rows3,
              audit |-> audit]
        ELSE [info |-> inf4, nodes |-> rows, audit |-> <<>>]

(***************************************************************************)
(* ha_manager_thread, main loop: one loop tick (tick <= now)               *)
(***************************************************************************)
LoopTickOf(p, fates) ==
    /\ pc[p] = "run"
    /\ op[p] = "none"
    /\ tick[p] <= now
    /\ ticks_num' = [ticks_num EXCEPT ![p] = @ + 1]
    /\ IF nextcheck[p] <= ticks_num[p] + 1
       THEN IF info[p].ha_status = ZBX_NODE_STATUS_UNKNOWN
            THEN /\ op' = [op EXCEPT ![p] = "create"]
                 /\ UNCHANGED << nodes, auditlog, info, pc, tick, nextcheck, chan, faults,
                                 link, upSince >>
            ELSE \E fate \in fates :
                    /\ FateAllowed(p, fate)
                    /\ Charge(p, fate)
                    /\ LET res == ha_check_nodes(p, info[p], nodes, link[p], fate)
                       IN  /\ nodes' = res.nodes
                           /\ auditlog' = zbx_audit_flush_once(auditlog, res.info.auditlog,
                                              res.audit)
                           /\ info' = [info EXCEPT ![p] = res.info]
                           /\ TickTail(p, info[p].ha_status, res.info, ticks_num[p] + 1)
                    /\ op' = op
       ELSE /\ chan' = [chan EXCEPT ![p] =
                   IF HeartbeatDue(p, info[p]) THEN ha_send_heartbeat(@) ELSE @]
            /\ tick' = [tick EXCEPT ![p] = now + 1]
            /\ UNCHANGED << nodes, auditlog, info, pc, op, nextcheck, faults, link, upSince >>
    /\ ManagerStep
    /\ UNCHANGED << nextId, cfgDelay, rmId, listTime, main_proc, inbox, reply >>

LoopTick(p) == LoopTickOf(p, Fates)

(* a liveness check in which a statement of the transaction fails *)
CheckAbort(p) ==
    /\ nextcheck[p] <= ticks_num[p] + 1
    /\ info[p].ha_status # ZBX_NODE_STATUS_UNKNOWN
    /\ LoopTickOf(p, {"abort"})


(***************************************************************************)
(* Administrative removal (ha_remove_node_by_index): the nodes are read    *)
(* without a lock, so the delete is a later step of the same transaction.  *)
(***************************************************************************)
AdminCodes == {"remove_node", "get_nodes", "set_failover_delay"}

(* variant: the status is requested on a connection of its own *)
MsgEphemeral(code, data) ==
    [code |-> code, client |-> IF code = "register" THEN "parent" ELSE "admin",
     data |-> data]

Msg(code, data) ==
    [code |-> code, client |-> IF code \in AdminCodes THEN "admin" ELSE "parent",
     data |-> data]

(* variant: a standby row may be removed *)
RemovableStandby(r) == r.status # ZBX_NODE_STATUS_ACTIVE

Removable(r) ==
    r.status # ZBX_NODE_STATUS_ACTIVE /\ r.status # ZBX_NODE_STATUS_STANDBY

(* outcome of the read part: the reply text, or <<>> to go on to the delete *)
RemoveCheck(rows, index) ==
    IF index - 1 < 0 \/ index - 1 >= Len(rows) THEN <<"node index out of range">>
    ELSE IF ~Removable(rows[index]) THEN <<"node is", rows[index].status>>
    ELSE <<>>

RemoveRead(p, index) ==
    \E fate \in {"ok", "fail"} :
        /\ FateAllowed(p, fate)
        /\ Charge(p, fate)
        /\ LET inf1 == ha_db_begin(info[p], link[p], fate)
               err == RemoveCheck(nodes, index)
           IN  IF ~DbOk(inf1.db_status)
               THEN /\ info' = [info EXCEPT ![p] = inf1]
                    /\ reply' = [reply EXCEPT ![p] = <<"remove_node", <<"database connection problem">> >>]
                    /\ UNCHANGED << op, rmId >>
               ELSE IF err # <<>>
               THEN /\ info' = [info EXCEPT ![p] = ha_db_rollback(inf1, link[p])]
                    /\ reply' = [reply EXCEPT ![p] = <<"remove_node", err>>]
                    /\ UNCHANGED << op, rmId >>
               ELSE /\ info' = [info EXCEPT ![p] = inf1]
                    /\ op' = [op EXCEPT ![p] = "delete"]
                    /\ rmId' = [rmId EXCEPT ![p] = nodes[index].id]
                    /\ reply' = reply

RemoveDelete(p) ==
    /\ pc[p] = "run"
    /\ op[p] = "delete"
    /\ \E fate \in Fates :
        /\ FateAllowed(p, fate)
        /\ Charge(p, fate)
        /\ IF ~link[p] \/ fate = "fail"
           THEN /\ UNCHANGED << nodes, auditlog >>
                /\ info' = [info EXCEPT ![p] = ha_db_rollback(@, link[p])]
                /\ reply' = [reply EXCEPT ![p] = <<"remove_node", <<"database connection problem">> >>]
           ELSE /\ nodes' = IF fate = "drop" THEN nodes ELSE DeleteRow(nodes, rmId[p])
                /\ auditlog' = IF fate = "drop" THEN auditlog
                               ELSE zbx_audit_flush_once(auditlog, info[p].auditlog,
                                        << AuditEntry("delete", "node", rmId[p]) >>)
                /\ info' = [info EXCEPT ![p] = ha_db_commit(@, fate)]
                /\ reply' = [reply EXCEPT ![p] = <<"remove_node", <<>> >>]
    /\ op' = [op EXCEPT ![p] = "none"]
    /\ rmId' = [rmId EXCEPT ![p] = 0]
    /\ ManagerStep
    /\ UNCHANGED << nextId, cfgDelay, listTime, pc, ticks_num, nextcheck, tick, main_proc,
                    inbox, chan >>

(***************************************************************************)
(* Node listing (ha_send_node_list): the database time and the nodes are   *)
(* read by two statements outside any transaction, so the node read is a   *)
(* later step.                                                             *)
(***************************************************************************)
(* ha_db_select: the statement is not sent unless the connection is held ok *)
ha_db_select(inf, up, fate) ==
    IF ~DbOk(inf.db_status) THEN inf
    ELSE [inf EXCEPT !.db_status = IF ~up THEN "down"
                                   ELSE IF fate = "fail" THEN "fail" ELSE "ok"]

(* is_ushort: the port column as ha_db_get_nodes reads it *)
is_ushort(port) == IF port \in 0..65535 THEN port ELSE 0

(* variant: the age is counted from the row to the database time *)
NodesJsonAge(rows, time) ==
    [i \in 1..Len(rows) |->
        [nodeid |-> rows[i].id, name |-> rows[i].name, status |-> rows[i].status,
         lastaccess |-> rows[i].lastaccess,
         address |-> << rows[i].address, ":", is_ushort(rows[i].port) >>,
         db_timestamp |-> time,
         lastaccess_age |-> rows[i].lastaccess - time]]

(* the array ha_db_get_nodes_json builds from the rows in the order read *)
NodesJson(rows, time) ==
    [i \in 1..Len(rows) |->
        [nodeid |-> rows[i].id, name |-> rows[i].name, status |-> rows[i].status,
         lastaccess |-> rows[i].lastaccess,
         address |-> << rows[i].address, ":", is_ushort(rows[i].port) >>,
         db_timestamp |-> time,
         lastaccess_age |-> time - rows[i].lastaccess]]

(* ha_db_get_nodes_json up to ha_db_get_time *)
NodesTime(p) ==
    \E fate \in {"ok", "fail"} :
        /\ FateAllowed(p, fate)
        /\ Charge(p, fate)
        /\ LET inf1 == ha_db_select(info[p], link[p], fate)
           IN  /\ info' = [info EXCEPT ![p] = inf1]
               /\ IF DbOk(inf1.db_status)
                  THEN /\ op' = [op EXCEPT ![p] = "nodes"]
                       /\ listTime' = [listTime EXCEPT ![p] = now]
                       /\ reply' = reply
                  ELSE /\ reply' = [reply EXCEPT ![p] =
                                       <<"get_nodes", FALSE, <<"database error">> >>]
                       /\ UNCHANGED << op, listTime >>

(* ha_db_get_nodes_json from ha_db_get_nodes on, and the reply *)
NodesRead(p) ==
    /\ pc[p] = "run"
    /\ op[p] = "nodes"
    /\ \E fate \in {"ok", "fail"} :
        /\ FateAllowed(p, fate)
        /\ Charge(p, fate)
        /\ LET inf1 == ha_db_select(info[p], link[p], fate)
           IN  /\ info' = [info EXCEPT ![p] = inf1]
               /\ reply' = [reply EXCEPT ![p] =
                               IF DbOk(inf1.db_status)
                               THEN <<"get_nodes", TRUE, NodesJson(nodes, listTime[p])>>
                               ELSE <<"get_nodes", FALSE, <<"database error">> >>]
    /\ op' = [op EXCEPT ![p] = "none"]
    /\ listTime' = [listTime EXCEPT ![p] = 0]
    /\ ManagerStep
    /\ UNCHANGED << nodes, nextId, cfgDelay, auditlog, rmId, pc, ticks_num, nextcheck, tick,
                    main_proc, inbox, chan >>

(***************************************************************************)
(* ha_set_failover_delay: a select, an update and the audit flush, outside *)
(* any transaction.  "fail" is a statement that fails, "drop" a connection *)
(* lost at the audit flush, after the update took effect.                  *)
(***************************************************************************)
(* variant: the manager keeps the failover delay it held *)
ha_set_failover_delay_stale(p, delay) ==
    \E fate \in Fates :
        /\ FateAllowed(p, fate)
        /\ fate = "drop" => info[p].auditlog # 0
        /\ Charge(p, fate)
        /\ LET inf1 == ha_db_select(info[p], link[p], fate)
           IN  IF ~DbOk(inf1.db_status)
               THEN /\ info' = [info EXCEPT ![p] = inf1]
                    /\ reply' = [reply EXCEPT ![p] =
                                    <<"set_failover_delay", <<"database error">> >>]
                    /\ UNCHANGED << cfgDelay, auditlog >>
               ELSE /\ cfgDelay' = delay
                    /\ info' = [info EXCEPT ![p] =
                                   [inf1 EXCEPT !.db_status = IF fate = "drop" THEN "down"
                                                              ELSE "ok"]]
                    /\ auditlog' = IF fate = "drop" THEN auditlog
                                   ELSE zbx_audit_flush_once(auditlog, inf1.auditlog,
                                            << AuditEntry("update", "settings", 1) >>)
                    /\ reply' = [reply EXCEPT ![p] = <<"set_failover_delay", <<>> >>]

ha_set_failover_delay(p, delay) ==
    \E fate \in Fates :
        /\ FateAllowed(p, fate)
        /\ fate = "drop" => info[p].auditlog # 0
        /\ Charge(p, fate)
        /\ LET inf1 == ha_db_select(info[p], link[p], fate)
           IN  IF ~DbOk(inf1.db_status)
               THEN /\ info' = [info EXCEPT ![p] = inf1]
                    /\ reply' = [reply EXCEPT ![p] =
                                    <<"set_failover_delay", <<"database error">> >>]
                    /\ UNCHANGED << cfgDelay, auditlog >>
               ELSE /\ cfgDelay' = delay
                    /\ info' = [info EXCEPT ![p] =
                                   [inf1 EXCEPT !.failover_delay = delay,
                                                !.db_status = IF fate = "drop" THEN "down"
                                                              ELSE "ok"]]
                    /\ auditlog' = IF fate = "drop" THEN auditlog
                                   ELSE zbx_audit_flush_once(auditlog, inf1.auditlog,
                                            << AuditEntry("update", "settings", 1) >>)
                    /\ reply' = [reply EXCEPT ![p] = <<"set_failover_delay", <<>> >>]

(***************************************************************************)
(* ha_manager_thread, main loop: one message received between two ticks    *)
(***************************************************************************)
HandleMessage(p) ==
    /\ pc[p] = "run"
    /\ op[p] = "none"
    /\ tick[p] > now
    /\ inbox[p] # <<>>
    /\ inbox' = [inbox EXCEPT ![p] = Tail(@)]
    /\ LET m == Head(inbox[p])
       IN  CASE m.code = "register" ->
                  /\ main_proc' = [main_proc EXCEPT ![p] = TRUE]
                  /\ UNCHANGED << nodes, cfgDelay, auditlog, info, pc, op, rmId, listTime, tick,
                                  chan, reply, faults, link, upSince >>
             [] m.code = "update" ->
                  /\ IF main_proc[p]
                     THEN /\ chan' = [chan EXCEPT ![p] = ha_update_parent(@, info[p])]
                          /\ pc' = pc
                     ELSE /\ chan' = chan
                          /\ pc' = [pc EXCEPT ![p] = "crashed"]
                  /\ UNCHANGED << nodes, cfgDelay, auditlog, info, op, rmId, listTime, tick,
                                  main_proc, reply, faults, link, upSince >>
             [] m.code = "stop" ->
                  /\ pc' = [pc EXCEPT ![p] = "stopping"]
                  /\ UNCHANGED << nodes, cfgDelay, auditlog, info, op, rmId, listTime, tick,
                                  main_proc, chan, reply, faults, link, upSince >>
             [] m.code = "pause" ->
                  /\ pc' = [pc EXCEPT ![p] = "pause"]
                  /\ tick' = [tick EXCEPT ![p] = now + ZBX_HA_POLL_PERIOD]
                  /\ UNCHANGED << nodes, cfgDelay, auditlog, info, op, rmId, listTime,
                                  main_proc, chan, reply, faults, link, upSince >>
             [] m.code = "remove_node" ->
                  /\ RemoveRead(p, m.data)
                  /\ IF info'[p].ha_status = ZBX_NODE_STATUS_ERROR
                     THEN /\ pc' = [pc EXCEPT ![p] = "pause"]
                          /\ tick' = [tick EXCEPT ![p] = now + ZBX_HA_POLL_PERIOD]
                     ELSE UNCHANGED << pc, tick >>
                  /\ UNCHANGED << nodes, cfgDelay, auditlog, listTime, main_proc, chan >>
             [] m.code = "get_nodes" ->
                  /\ NodesTime(p)
                  /\ UNCHANGED << nodes, cfgDelay, auditlog, pc, rmId, tick, main_proc, chan >>
             [] m.code = "set_failover_delay" ->
                  /\ ha_set_failover_delay(p, m.data)
                  /\ IF main_proc[p]
                     THEN /\ chan' = [chan EXCEPT ![p] = ha_update_parent(@, info'[p])]
                          /\ pc' = pc
                     ELSE /\ chan' = chan
                          /\ pc' = [pc EXCEPT ![p] = "crashed"]
                  /\ UNCHANGED << nodes, op, rmId, listTime, tick, main_proc >>
    /\ ManagerStep
    /\ UNCHANGED << nextId, ticks_num, nextcheck >>

(***************************************************************************)
(* Paused loop and exit                                                    *)
(***************************************************************************)
(* ha_db_update_lastaccess: new info and new table *)
ha_db_update_lastaccess(inf0, rows, up, fate) ==
    LET inf1 == ha_db_begin(inf0, up, fate)
        inf2 == ha_db_commit(inf1, fate)
    IN  IF ~DbOk(inf1.db_status) THEN [info |-> inf1, nodes |-> rows]
        ELSE IF DbOk(inf2.db_status)
        THEN [info |-> inf2,
              nodes |-> UpdateRow(rows, inf0.ha_nodeid,
                            LAMBDA r : [r EXCEPT !.lastaccess = now])]
        ELSE [info |-> inf2, nodes |-> rows]

(* variant: the paused loop refreshes lastaccess whatever the status *)
RefreshDueAlways(inf) == TRUE

RefreshDue(inf) ==
    inf.ha_status = ZBX_NODE_STATUS_STANDBY \/ inf.ha_status = ZBX_NODE_STATUS_ACTIVE

PauseLoop(p) ==
    /\ pc[p] = "pause"
    /\ inbox[p] # <<>> \/ tick[p] <= now
    /\ \E fate \in Fates :
        /\ FateAllowed(p, fate)
        /\ Charge(p, fate)
        /\ LET res == IF RefreshDue(info[p])
                      THEN ha_db_update_lastaccess(info[p], nodes, link[p], fate)
                      ELSE [info |-> info[p], nodes |-> nodes]
               code == IF inbox[p] = <<>> THEN "none" ELSE Head(inbox[p]).code
           IN  /\ nodes' = res.nodes
               /\ info' = [info EXCEPT ![p] = res.info]
               /\ main_proc' = IF code = "register"
                               THEN [main_proc EXCEPT ![p] = TRUE] ELSE main_proc
               /\ chan' = IF code = "update" /\ main_proc[p]
                          THEN [chan EXCEPT ![p] = ha_update_parent(@, res.info)]
                          ELSE chan
               /\ pc' = IF code = "update" /\ ~main_proc[p]
                        THEN [pc EXCEPT ![p] = "crashed"]
                        ELSE IF code = "stop" THEN [pc EXCEPT ![p] = "stopping"]
                        ELSE pc
    /\ inbox' = [inbox EXCEPT ![p] = IF @ = <<>> THEN @ ELSE Tail(@)]
    /\ tick' = [tick EXCEPT ![p] = now + ZBX_HA_POLL_PERIOD]
    /\ ManagerStep
    /\ UNCHANGED << nextId, cfgDelay, auditlog, op, rmId, listTime, ticks_num, nextcheck, reply >>

(* variant: the exit status is written whatever the last known status *)
ha_db_update_exit_status_always(inf0, rows, up, fate) ==
    LET inf1 == ha_db_begin(inf0, up, fate)
        inf2 == ha_db_commit(inf1, fate)
    IN  IF ~DbOk(inf1.db_status) THEN [info |-> inf1, nodes |-> rows, audit |-> <<>>]
        ELSE IF DbOk(inf2.db_status)
        THEN [info |-> inf2,
              nodes |-> UpdateRow(rows, inf0.ha_nodeid,
                            LAMBDA r : [r EXCEPT !.status = ZBX_NODE_STATUS_STOPPED]),
              audit |-> << AuditEntry("update", "node", inf0.ha_nodeid) >>]
        ELSE [info |-> inf2, nodes |-> rows, audit |-> <<>>]

(* ha_db_update_exit_status: new info and new table *)
ha_db_update_exit_status(inf0, rows, up, fate) ==
    LET inf1 == ha_db_begin(inf0, up, fate)
        inf2 == ha_db_commit(inf1, fate)
    IN  IF ~RefreshDue(inf0) THEN [info |-> inf0, nodes |-> rows, audit |-> <<>>]
        ELSE IF ~DbOk(inf1.db_status) THEN [info |-> inf1, nodes |-> rows, audit |-> <<>>]
        ELSE IF DbOk(inf2.db_status)
        THEN [info |-> inf2,
              nodes |-> UpdateRow(rows, inf0.ha_nodeid,
                            LAMBDA r : [r EXCEPT !.status = ZBX_NODE_STATUS_STOPPED]),
              audit |-> << AuditEntry("update", "node", inf0.ha_nodeid) >>]
        ELSE [info |-> inf2, nodes |-> rows, audit |-> <<>>]

(* variant: the manager waits for the database before it exits *)
ExitConnected(p) ==
    /\ pc[p] = "stopping"
    /\ link[p]
    /\ LET res == ha_db_update_exit_status(info[p], nodes, link[p], "ok")
       IN  /\ nodes' = res.nodes
           /\ auditlog' = zbx_audit_flush_once(auditlog, info[p].auditlog, res.audit)
           /\ info' = [info EXCEPT ![p] = res.info]
    /\ pc' = [pc EXCEPT ![p] = "exit"]
    /\ ManagerStep
    /\ UNCHANGED << nextId, cfgDelay, op, rmId, listTime, ticks_num, nextcheck, tick, main_proc,
                    inbox, chan, reply, faults, link, upSince >>

Exit(p) ==
    /\ pc[p] = "stopping"
    /\ \E fate \in Fates :
        /\ FateAllowed(p, fate)
        /\ Charge(p, fate)
        /\ LET res == ha_db_update_exit_status(info[p], nodes, link[p], fate)
           IN  /\ nodes' = res.nodes
               /\ auditlog' = zbx_audit_flush_once(auditlog, info[p].auditlog, res.audit)
               /\ info' = [info EXCEPT ![p] = res.info]
    /\ pc' = [pc EXCEPT ![p] = "exit"]
    /\ ManagerStep
    /\ UNCHANGED << nextId, cfgDelay, op, rmId, listTime, ticks_num, nextcheck, tick, main_proc, inbox, chan, reply >>


(***************************************************************************)
(* Parent side: the client facade                                          *)
(***************************************************************************)
Alive(p) == pc[p] \notin {"exit", "crashed"}

Send(p, code, data) ==
    /\ Alive(p)
    /\ envTurn
    /\ requests > 0
    /\ requests' = requests - 1
    /\ inbox' = [inbox EXCEPT ![p] = Append(@, Msg(code, data))]
    /\ UNCHANGED << now, nodes, nextId, cfgDelay, cfgAudit, auditlog, lazy, link, cfgName, info, pc, op, rmId, listTime,
                    ticks_num, nextcheck, tick, main_proc, chan, reply,
                    pstat, last_hb, pdelay, perr, upSince, faults, horizon, envTurn >>

(* zbx_ha_get_status *)
RequestStatus(p) == Send(p, "update", 0)

(* zbx_ha_pause *)
Pause(p) == Send(p, "pause", 0)

(* zbx_ha_stop *)
Stop(p) == Send(p, "stop", 0)

(* zbx_ha_remove_node *)
RemoveNode(p) == \E index \in 0..(Len(nodes) + 1) : Send(p, "remove_node", index)

(* zbx_ha_get_nodes *)
GetNodes(p) == Send(p, "get_nodes", 0)

(* zbx_ha_set_failover_delay *)
SetFailoverDelay(p) == \E delay \in NewDelays : Send(p, "set_failover_delay", delay)

(* A request sent on a connection of its own (zbx_ipc_async_exchange) is   *)
(* not ordered with the messages other connections have pending: the       *)
(* manager may receive it first.                                           *)
SendFirst(p, code, data) ==
    /\ Alive(p)
    /\ envTurn
    /\ requests > 0
    /\ requests' = requests - 1
    /\ inbox[p] # <<>>
    /\ inbox' = [inbox EXCEPT ![p] = << Msg(code, data) >> \o @]
    /\ UNCHANGED << now, nodes, nextId, cfgDelay, cfgAudit, auditlog, lazy, link, cfgName, info, pc, op, rmId, listTime,
                    ticks_num, nextcheck, tick, main_proc, chan, reply,
                    pstat, last_hb, pdelay, perr, upSince, faults, horizon, envTurn >>

SetFailoverDelayFirst(p) ==
    \E delay \in NewDelays : SendFirst(p, "set_failover_delay", delay)

(* the receive loop of zbx_ha_recv_status over the pending frames q *)
RECURSIVE Drain(_, _)
Drain(q, st) ==
    IF q = <<>> THEN [st EXCEPT !.rest = <<>>]
    ELSE IF Head(q).code = "heartbeat"
    THEN Drain(Tail(q), [st EXCEPT !.last_hb = now])
    ELSE LET f == Head(q)
             st2 == [st EXCEPT !.status = f.status, !.delay = f.failover_delay,
                               !.err = f.error]
         IN  IF f.status = ZBX_NODE_STATUS_ERROR
             THEN [st2 EXCEPT !.rest = Tail(q), !.failed = TRUE]
             ELSE Drain(Tail(q), IF st.status # f.status
                                 THEN [st2 EXCEPT !.last_hb = now] ELSE st2)

(* variant: the poll period is not subtracted from the failover delay *)
HeartbeatLostLate(p, st) ==
    /\ ZBX_HA_IS_CLUSTER(p)
    /\ st.status = ZBX_NODE_STATUS_ACTIVE
    /\ st.last_hb # 0
    /\ (st.last_hb + st.delay <= now \/ now < st.last_hb)

(* the heartbeat check after the receive loop *)
HeartbeatLost(p, st) ==
    /\ ZBX_HA_IS_CLUSTER(p)
    /\ st.status = ZBX_NODE_STATUS_ACTIVE
    /\ st.last_hb # 0
    /\ (st.last_hb + st.delay - ZBX_HA_POLL_PERIOD <= now \/ now < st.last_hb)

(* variant: one frame is read at every call *)
zbx_ha_recv_status_one(p) ==
    LET q == IF chan[p] = <<>> THEN <<>> ELSE << Head(chan[p]) >>
        st == Drain(q, [status |-> pstat[p], last_hb |-> last_hb[p],
                        delay |-> pdelay[p], err |-> perr[p],
                        rest |-> <<>>, failed |-> FALSE])
    IN  [st EXCEPT !.rest = IF chan[p] = <<>> THEN <<>> ELSE Tail(chan[p])]

zbx_ha_recv_status(p) ==
    LET st == Drain(chan[p], [status |-> pstat[p], last_hb |-> last_hb[p],
                              delay |-> pdelay[p], err |-> perr[p],
                              rest |-> <<>>, failed |-> FALSE])
    IN  IF ~st.failed /\ HeartbeatLost(p, st)
        THEN [st EXCEPT !.status = ZBX_NODE_STATUS_STANDBY]
        ELSE st

ReceiveStatus(p) ==
    /\ Pending => chan[p] # <<>>
    /\ LET st == zbx_ha_recv_status(p)
       IN  /\ pstat' = [pstat EXCEPT ![p] = st.status]
           /\ last_hb' = [last_hb EXCEPT ![p] = st.last_hb]
           /\ pdelay' = [pdelay EXCEPT ![p] = st.delay]
           /\ perr' = [perr EXCEPT ![p] = st.err]
           /\ chan' = [chan EXCEPT ![p] = st.rest]
    /\ UNCHANGED << now, nodes, nextId, cfgDelay, cfgAudit, auditlog, lazy, link, cfgName, info, pc, op, rmId, listTime,
                    ticks_num, nextcheck, tick, main_proc, inbox, reply,
                    upSince, faults, requests, horizon, envTurn >>

(***************************************************************************)
(* Environment: database connectivity and the clock                        *)
(***************************************************************************)
Outage(p) ==
    /\ link[p]
    /\ envTurn
    /\ faults > 0
    /\ faults' = faults - 1
    /\ link' = [link EXCEPT ![p] = FALSE]
    /\ upSince' = [upSince EXCEPT ![p] = 0]
    /\ UNCHANGED << now, nodes, nextId, cfgDelay, cfgAudit, auditlog, lazy, cfgName, info, pc, op, rmId, listTime,
                    ticks_num, nextcheck, tick, main_proc, inbox, chan, reply,
                    pstat, last_hb, pdelay, perr, requests, horizon, envTurn >>

Reconnect(p) ==
    /\ ~link[p]
    /\ envTurn
    /\ faults > 0
    /\ faults' = faults - 1
    /\ link' = [link EXCEPT ![p] = TRUE]
    /\ upSince' = [upSince EXCEPT ![p] = now]
    /\ UNCHANGED << now, nodes, nextId, cfgDelay, cfgAudit, auditlog, lazy, cfgName, info, pc, op, rmId, listTime,
                    ticks_num, nextcheck, tick, main_proc, inbox, chan, reply,
                    pstat, last_hb, pdelay, perr, requests, horizon, envTurn >>

(* nothing is due at the current second *)
Quiet(p) ==
    /\ pc[p] \notin {"start", "stopping"}
    /\ pc[p] = "run" /\ op[p] # "nodes" => op[p] = "none" /\ tick[p] > now /\ inbox[p] = <<>>
    /\ pc[p] = "pause" => tick[p] > now /\ inbox[p] = <<>>
    /\ lazy \/ chan[p] = <<>>

Clock ==
    /\ now < horizon
    /\ \A p \in Procs : Quiet(p)
    /\ now' = now + 1
    /\ envTurn' = TRUE
    /\ UNCHANGED << nodes, nextId, cfgDelay, cfgAudit, auditlog, lazy, link, cfgName, info, pc, op, rmId, listTime,
                    ticks_num, nextcheck, tick, main_proc, inbox, chan, reply,
                    pstat, last_hb, pdelay, perr, upSince, faults, requests, horizon >>

(***************************************************************************)
(* Specifications.  Connectivity changes and requests happen at the start  *)
(* of a second.                                                            *)
(***************************************************************************)
Links == [Procs -> BOOLEAN]

(* the registry under connectivity faults: no request but Register *)
Init == InitWith(NameConfigs, Links, FailoverDelays, MaxFaults, 0, MaxTime)

Registry(p) ==
    \/ RegRead(p)
    \/ RegInsert(p)
    \/ RegUpdate(p)
    \/ LoopTick(p)
    \/ HandleMessage(p)
    \/ PauseLoop(p)

Environment ==
    \/ \E p \in Procs : Outage(p)
    \/ \E p \in Procs : Reconnect(p)
    \/ Clock

Next ==
    \/ \E p \in Procs : Registry(p)
    \/ \E p \in Procs : ReceiveStatus(p)
    \/ Environment

Spec == Init /\ [][Next]_vars

(* the same over a longer run *)
InitLong == InitWith({<<"a", "b">>}, Links, FailoverDelays, LongFaults, 0, LongTime)

SpecLong == InitLong /\ [][Next]_vars

(* the manager service: requests of the parent and of the administrator *)
InitService == InitWith(NameConfigs, Links, ServiceDelays, ServiceFaults, MaxRequests, MaxTime)

NextService ==
    \/ Next
    \/ \E p \in Procs : RemoveDelete(p)
    \/ \E p \in Procs : Exit(p)
    \/ \E p \in Procs : RequestStatus(p)
    \/ \E p \in Procs : Pause(p)
    \/ \E p \in Procs : Stop(p)
    \/ \E p \in Procs : RemoveNode(p)

SpecService == InitService /\ [][NextService]_vars

(* pause and stop of nodes that share a name, under connectivity faults *)
InitTakeover ==
    InitWith({<<"a", "a">>}, {[p \in Procs |-> p = 1]}, FailoverDelays, MaxFaults, MaxRequests, MaxTime)

NextTakeover ==
    \/ Next
    \/ \E p \in Procs : Exit(p)
    \/ \E p \in Procs : Pause(p)
    \/ \E p \in Procs : Stop(p)

SpecTakeover == InitTakeover /\ [][NextTakeover]_vars

(* a run long enough for a standby node to take over from a stalled peer *)
InitFailover ==
    InitWith({<<"a", "b">>}, {[p \in Procs |-> TRUE]}, FailoverDelays, LongFaults, 0,
             FailoverTime)

SpecFailover == InitFailover /\ [][Next]_vars

(* the registry with statements that fail inside the transaction of a check *)
AbortTime == 15

InitAbort == InitWith({<<"a", "b">>}, Links, FailoverDelays, LongFaults, 0, AbortTime)

NextAbort == Next \/ \E p \in Procs : CheckAbort(p)

SpecAbort == InitAbort /\ [][NextAbort]_vars

(* the registry with a stop request, with distinct names and with one name *)
(* configured twice, long enough for a peer to see the row of a stopped    *)
(* manager expire                                                          *)
InitHalt ==
    InitWith({<<"a", "b">>, <<"a", "a">>}, {[p \in Procs |-> TRUE]}, FailoverDelays,
             LongFaults, MaxRequests, AbortTime)

NextHalt ==
    \/ Next
    \/ \E p \in Procs : Stop(p)
    \/ \E p \in Procs : Exit(p)

SpecHalt == InitHalt /\ [][NextHalt]_vars

(* the registry with a request to remove a node, long enough for a        *)
(* manager to miss the row that was removed                                *)
InitGone ==
    InitWith({<<"a", "b">>}, {[p \in Procs |-> TRUE]}, FailoverDelays, LongFaults,
             MaxRequests, MaxTime)

NextGone ==
    \/ Next
    \/ \E p \in Procs : RemoveNode(p)
    \/ \E p \in Procs : RemoveDelete(p)

SpecGone == InitGone /\ [][NextGone]_vars

(* the registry under connectivity faults with the scheduling of the code: *)
(* the manager thread waits for a message no longer than to its next tick, *)
(* the parent polls its socket, and the clock advances                     *)
Fairness ==
    /\ \A p \in Procs : WF_vars(Registry(p))
    /\ \A p \in Procs : WF_vars(ReceiveStatus(p))
    /\ WF_vars(Clock)

InitLive == InitWith({<<"a", "b">>}, Links, FailoverDelays, LongFaults, 0, LiveTime)

SpecLive == InitLive /\ [][Next]_vars /\ Fairness

(* the parent pauses and stops the manager; the second node starts with   *)
(* the database unreachable                                                *)
InitStop ==
    InitWith({<<"a", "b">>}, {[p \in Procs |-> p = 1]}, FailoverDelays, ServiceFaults,
             StopRequests, ChannelTime)

NextStop ==
    \/ Next
    \/ \E p \in Procs : Pause(p)
    \/ \E p \in Procs : Stop(p)
    \/ \E p \in Procs : Exit(p)

SpecStop ==
    InitStop /\ [][NextStop]_vars /\ Fairness /\ \A p \in Procs : WF_vars(Exit(p))

(* parents that leave frames pending on their notification sockets *)
InitChannel ==
    /\ cfgAudit = 0
    /\ lazy = TRUE
    /\ Boot({<<"a", "b">>}, Links, FailoverDelays, ServiceFaults, MaxRequests, ChannelTime)

NextChannel ==
    \/ Next
    \/ \E p \in Procs : RequestStatus(p)

SpecChannel == InitChannel /\ [][NextChannel]_vars

(* ha_set_error and a transaction that fails at its begin, applied         *)
(* to managers in any status but error; every call uses up one fault       *)
ErrorTexts ==
    { <<"database error">>, <<"found active standalone node in HA mode">>,
      <<"the server HA registry record has changed ownership">> }

StartInfos ==
    {[InitInfo EXCEPT !.ha_status = st, !.db_status = db] :
        st \in {ZBX_NODE_STATUS_UNKNOWN, ZBX_NODE_STATUS_STANDBY, ZBX_NODE_STATUS_ACTIVE},
        db \in {"ok", "down", "fail"}}

InitError ==
    /\ cfgAudit = 0
    /\ lazy = FALSE
    /\ BootWith({<<"a", "b">>}, {[p \in Procs |-> TRUE]}, FailoverDelays, MaxFaults, 0, 1,
                StartInfos)

Calls(p, inf) ==
    /\ faults > 0
    /\ faults' = faults - 1
    /\ info' = [info EXCEPT ![p] = inf]
    /\ UNCHANGED << now, nodes, nextId, cfgDelay, cfgAudit, auditlog, lazy, link, cfgName,
                    pc, op, rmId, listTime, ticks_num, nextcheck, tick, main_proc, inbox,
                    chan, reply, pstat, last_hb, pdelay, perr, upSince, requests, horizon,
                    envTurn >>

SetError(p) == \E err \in ErrorTexts : Calls(p, ha_set_error(info[p], err))

BeginFails(p) == Calls(p, ha_db_begin(info[p], TRUE, "fail"))

NextError ==
    \/ \E p \in Procs : SetError(p)
    \/ \E p \in Procs : BeginFails(p)

SpecError == InitError /\ [][NextError]_vars

(* the administrative requests, with auditing enabled *)
InitAdmin ==
    /\ cfgAudit = 1
    /\ lazy = FALSE
    /\ Boot({<<"a", "b">>}, Links, FailoverDelays, ServiceFaults, MaxRequests, MaxTime)

NextAdmin ==
    \/ Next
    \/ \E p \in Procs : RemoveDelete(p)
    \/ \E p \in Procs : NodesRead(p)
    \/ \E p \in Procs : Exit(p)
    \/ \E p \in Procs : Stop(p)
    \/ \E p \in Procs : RemoveNode(p)
    \/ \E p \in Procs : GetNodes(p)
    \/ \E p \in Procs : SetFailoverDelay(p)

SpecAdmin == InitAdmin /\ [][NextAdmin]_vars

(* the administrative requests and the status request of the parent *)
NextRequests ==
    \/ NextAdmin
    \/ \E p \in Procs : RequestStatus(p)

SpecRequests == InitAdmin /\ [][NextRequests]_vars

(* a change of the failover delay requested while the parent's Register is *)
(* pending still                                                           *)
InitRace ==
    /\ cfgAudit = 1
    /\ lazy = FALSE
    /\ Boot({<<"a", "b">>}, Links, FailoverDelays, ServiceFaults, MaxRequests, ChannelTime)

NextRace ==
    \/ Next
    \/ \E p \in Procs : SetFailoverDelay(p)
    \/ \E p \in Procs : SetFailoverDelayFirst(p)

SpecRace == InitRace /\ [][NextRace]_vars

(***************************************************************************)
(* Servers started on a registry that earlier servers left behind: table   *)
(* ha_node outlives the processes, so the rows of servers that have gone   *)
(* (stopped, killed, or marked unavailable by a peer and refreshed by      *)
(* their paused loop afterwards) are there when new processes register.    *)
(***************************************************************************)
ActiveRows(rows) == {i \in 1..Len(rows) : rows[i].status = ZBX_NODE_STATUS_ACTIVE}

RowStatuses == {ZBX_NODE_STATUS_STANDBY, ZBX_NODE_STATUS_STOPPED,
                ZBX_NODE_STATUS_UNAVAILABLE, ZBX_NODE_STATUS_ACTIVE}

(* the rows a server named name with ha_nodeid id may have left at db_time *)
OldRows(id, name, delay, db_time) ==
    [id : {id}, name : {name}, status : RowStatuses,
     lastaccess : {db_time - delay, db_time - delay + 1, db_time},
     address : {<<"host", Cardinality(Procs) + 1>>}, port : {ZBX_DEFAULT_SERVER_PORT},
     sessionid : {Cardinality(Procs) + 1}]

OldTables(delay, db_time) ==
    {<< r >> : r \in OldRows(1, "a", delay, db_time)}
    \cup {<< r1, r2 >> : r1 \in OldRows(1, "a", delay, db_time),
                         r2 \in OldRows(2, "b", delay, db_time)}

InitRestart ==
    /\ now = StartTime
    /\ cfgDelay \in FailoverDelays
    /\ cfgAudit = 0
    /\ auditlog = <<>>
    /\ lazy = FALSE
    /\ nodes \in {t \in OldTables(cfgDelay, now) : Cardinality(ActiveRows(t)) <= 1}
    /\ nextId = Len(nodes) + 1
    /\ link = [p \in Procs |-> TRUE]
    /\ upSince = [p \in Procs |-> now]
    /\ cfgName \in {[p \in Procs |-> c[p]] : c \in {<<"", "a">>, <<"", "b">>}}
    /\ info = [p \in Procs |-> InitInfo]
    /\ pc = [p \in Procs |-> "start"]
    /\ op = [p \in Procs |-> "create"]
    /\ rmId = [p \in Procs |-> 0]
    /\ listTime = [p \in Procs |-> 0]
    /\ ticks_num = [p \in Procs |-> 0]
    /\ nextcheck = [p \in Procs |-> ZBX_HA_POLL_PERIOD]
    /\ tick = [p \in Procs |-> now]
    /\ main_proc = [p \in Procs |-> FALSE]
    /\ inbox = [p \in Procs |-> << [code |-> "register", client |-> "parent", data |-> 0] >>]
    /\ chan = [p \in Procs |-> <<>>]
    /\ reply = [p \in Procs |-> <<>>]
    /\ pstat = [p \in Procs |-> ZBX_NODE_STATUS_UNKNOWN]
    /\ last_hb = [p \in Procs |-> 0]
    /\ pdelay = [p \in Procs |-> ZBX_HA_DEFAULT_FAILOVER_DELAY]
    /\ perr = [p \in Procs |-> NoError]
    /\ faults = LongFaults
    /\ requests = 0
    /\ horizon = StartTime + RestartSpan
    /\ envTurn = TRUE

SpecRestart == InitRestart /\ [][Next]_vars

(***************************************************************************)
(* Properties of the registry                                              *)
(***************************************************************************)
(* a row still considered live at database time db_time *)
Live(r, db_time) ==
    /\ r.status \in {ZBX_NODE_STATUS_ACTIVE, ZBX_NODE_STATUS_STANDBY}
    /\ r.lastaccess + cfgDelay > db_time

LiveNames == {nodes[i].name : i \in {k \in 1..Len(nodes) : Live(nodes[k], now)}}

(* C1: after every committed transaction at most one row of ha_node has    *)
(* status = active.                                                        *)
SingleActive == Cardinality(ActiveRows(nodes)) <= 1

(* C2: when a node has stayed connected to the database and in its tick    *)
(* loop for longer than failover_delay + P, exactly one row has status =   *)
(* active.                                                                 *)
ActiveWithinFailoverDelay ==
    \A p \in Procs :
        (/\ pc[p] = "run"
         /\ upSince[p] # 0
         /\ now - upSince[p] > cfgDelay + ZBX_HA_POLL_PERIOD)
        => Cardinality(ActiveRows(nodes)) = 1

(* C3: after every committed transaction a live row with a non-empty name  *)
(* and a live row with an empty name never exist together.                 *)
ModeExclusive == ~("" \in LiveNames /\ LiveNames \ {""} # {})

(* C8: no two rows share a ha_nodeid, and no two rows share a non-empty    *)
(* name.                                                                   *)
NameUnique ==
    \A i, j \in 1..Len(nodes) :
        i # j => /\ nodes[i].id # nodes[j].id
                 /\ nodes[i].name = nodes[j].name => nodes[i].name = ""

(***************************************************************************)
(* Properties of the session ownership                                     *)
(***************************************************************************)
(* the loop tick of p that runs ha_check_nodes *)
CheckTick(p) ==
    /\ LoopTick(p)
    /\ nextcheck[p] <= ticks_num[p] + 1
    /\ info[p].ha_status \in {ZBX_NODE_STATUS_ACTIVE, ZBX_NODE_STATUS_STANDBY}

(* the row named like p exists and carries another session *)
SessionLost(p) ==
    LET k == ha_find_node_by_name(nodes, cfgName[p])
    IN  k # 0 /\ nodes[k].sessionid # p

(* C4, as stated: a manager whose session differs from the ha_sessionid of *)
(* its own row has ha_status = error after its next status check.          *)
SessionLostIsError ==
    [][\A p \in Procs :
          CheckTick(p) /\ SessionLost(p)
          => info'[p].ha_status = ZBX_NODE_STATUS_ERROR]_vars

(* C4, amended: a manager whose session differs from the ha_sessionid of   *)
(* its own row has ha_status = error after its next status check that      *)
(* reaches the database.                                                   *)
SessionLostIsErrorOnline ==
    [][\A p \in Procs :
          CheckTick(p) /\ SessionLost(p) /\ link[p]
          => /\ info'[p].ha_status = ZBX_NODE_STATUS_ERROR
             /\ nodes' = nodes]_vars

SessionLostSeen ==
    \E p \in Procs :
        /\ info[p].error = <<"the server HA registry record has changed ownership">>
        /\ pc[p] = "pause"
        /\ link[p]
        /\ LET k == ha_find_node_by_name(nodes, cfgName[p])
           IN  k # 0 /\ nodes[k].id = info[p].ha_nodeid /\ nodes[k].sessionid \in Procs \ {p}

RowsOf(rows, id) == {rows[i] : i \in {k \in 1..Len(rows) : rows[k].id = id}}

(* C5: a manager never commits an update of its own row, in the tick loop, *)
(* in the paused loop or at exit, while the row carries another session.   *)
OwnRowWriteOwned ==
    [][\A p \in Procs :
          /\ LoopTick(p) \/ PauseLoop(p) \/ Exit(p)
          /\ RowsOf(nodes', info[p].ha_nodeid) # RowsOf(nodes, info[p].ha_nodeid)
          => \A r \in RowsOf(nodes, info[p].ha_nodeid) : r.sessionid = p]_vars

(***************************************************************************)
(* Properties of the parent side                                           *)
(***************************************************************************)
(* the parent holds active, no frame is pending and the last heartbeat is  *)
(* failover_delay - P seconds old                                          *)
HeartbeatSilent(p) ==
    /\ pstat[p] = ZBX_NODE_STATUS_ACTIVE
    /\ chan[p] = <<>>
    /\ last_hb[p] + pdelay[p] - ZBX_HA_POLL_PERIOD <= now

(* C6, as stated: when the parent holds active and has received no         *)
(* heartbeat for failover_delay - P seconds, zbx_ha_recv_status returns    *)
(* standby.                                                                *)
HeartbeatDemotes ==
    \A p \in Procs :
        HeartbeatSilent(p) => zbx_ha_recv_status(p).status = ZBX_NODE_STATUS_STANDBY

(* C6, amended: when the parent of a cluster node holds active and has     *)
(* received no heartbeat for failover_delay - P seconds,                   *)
(* zbx_ha_recv_status returns standby; the parent of a standalone node     *)
(* keeps active.                                                           *)
HeartbeatDemotesCluster ==
    \A p \in Procs :
        HeartbeatSilent(p) =>
            zbx_ha_recv_status(p).status =
                IF ZBX_HA_IS_CLUSTER(p) THEN ZBX_NODE_STATUS_STANDBY
                ELSE ZBX_NODE_STATUS_ACTIVE

HeartbeatDemoted ==
    \E p \in Procs :
        /\ pstat[p] = ZBX_NODE_STATUS_STANDBY
        /\ info[p].ha_status = ZBX_NODE_STATUS_ACTIVE
        /\ last_hb[p] + pdelay[p] - ZBX_HA_POLL_PERIOD <= now

(***************************************************************************)
(* Properties of the removal                                               *)
(***************************************************************************)
(* C7: a row disappears only in the delete of a RemoveNode request, and    *)
(* its status is then neither active nor standby.                          *)
DeletedOnlyWhenDown ==
    [][\A i \in 1..Len(nodes) :
          (\A j \in 1..Len(nodes') : nodes'[j].id # nodes[i].id)
          => /\ \E p \in Procs : RemoveDelete(p) /\ rmId[p] = nodes[i].id
             /\ Removable(nodes[i])]_vars

(***************************************************************************)
(* Properties of the notification of the parent                            *)
(***************************************************************************)
Fatal(p) == info[p].ha_status = ZBX_NODE_STATUS_ERROR

(* nothing is queued in either direction between p's manager and parent *)
Settled(p) == main_proc[p] /\ inbox[p] = <<>> /\ chan[p] = <<>>

NextMessage(p) == IF inbox[p] = <<>> THEN "none" ELSE Head(inbox[p]).code

(* C9, as stated: once the manager has set ha_status = error and all       *)
(* frames are delivered, the parent holds the error status and its         *)
(* reason, also when the registration at start raised it.                  *)
FatalReported ==
    \A p \in Procs :
        Fatal(p) /\ pc[p] = "pause" /\ Settled(p)
        => pstat[p] = ZBX_NODE_STATUS_ERROR /\ perr[p] = info[p].error

(* C9, amended: a fatal error sets ha_status = error for good and the      *)
(* manager enters the paused loop, which it leaves only on Stop.  The      *)
(* manager sends StatusUpdate(error, reason) by itself when a loop tick    *)
(* raises the error while the parent is registered; otherwise the parent   *)
(* gets it in reply to RequestStatus.  The parent then holds the error     *)
(* and its reason.                                                         *)
FatalPauses ==
    [][\A p \in Procs :
          /\ Fatal(p) => info'[p] = info[p]
          /\ Fatal(p)' => pc'[p] \in {"pause", "stopping", "exit"}
          /\ pc[p] = "pause" /\ pc'[p] # "pause"
                => pc'[p] = "stopping" /\ NextMessage(p) = "stop"
          /\ pc[p] = "run" /\ tick[p] <= now /\ main_proc[p] /\ ~Fatal(p) /\ Fatal(p)'
                => chan'[p] = Append(chan[p], StatusUpdate(info'[p]))
          /\ PauseLoop(p) /\ NextMessage(p) = "update"
                => chan'[p] = Append(chan[p], StatusUpdate(info'[p]))
          /\ ReceiveStatus(p) /\ chan[p] # <<>> /\ Head(chan[p]).code = "update"
                /\ Head(chan[p]).status = ZBX_NODE_STATUS_ERROR
                => /\ pstat'[p] = ZBX_NODE_STATUS_ERROR
                   /\ perr'[p] = Head(chan[p]).error]_vars

FatalReceived ==
    \E p \in Procs :
        /\ Fatal(p)
        /\ pc[p] = "pause"
        /\ pstat[p] = ZBX_NODE_STATUS_ERROR
        /\ perr[p] = info[p].error
        /\ perr[p] # NoError

(* the registration at start that p's manager ran on an empty table with   *)
(* the database reachable is about to write the row it inserted            *)
ColdStart(p) ==
    /\ pc[p] = "start"
    /\ op[p] = "update"
    /\ link[p]
    /\ Len(nodes) = 1
    /\ nodes[1] = [id |-> info[p].ha_nodeid, name |-> cfgName[p],
                   status |-> ZBX_NODE_STATUS_STOPPED, lastaccess |-> now,
                   address |-> "", port |-> 0, sessionid |-> 0]

(* C10, as stated: after a cold start, once all frames are delivered, the  *)
(* parent holds active and the failover delay though it sent no            *)
(* RequestStatus.                                                          *)
ColdStartReported ==
    \A p \in Procs :
        (/\ now = 1
         /\ pc[p] = "run"
         /\ info[p].ha_status = ZBX_NODE_STATUS_ACTIVE
         /\ Len(nodes) = 1
         /\ Settled(p))
        => pstat[p] = ZBX_NODE_STATUS_ACTIVE /\ pdelay[p] = cfgDelay

(* C10, amended: a cold start ends the first registration with exactly one *)
(* row, carrying the manager's name, status active and lastaccess =        *)
(* db_time, and sends nothing to the parent; the parent receives           *)
(* StatusUpdate{active, failover_delay of the configuration} in reply to   *)
(* RequestStatus.                                                          *)
ColdStartActive ==
    [][\A p \in Procs :
          /\ RegUpdate(p) /\ ColdStart(p) /\ DbOk(info'[p].db_status)
                => /\ nodes' = << [nodes[1] EXCEPT !.status = ZBX_NODE_STATUS_ACTIVE,
                                                   !.address = CONFIG_NODE_ADDRESS[p].host,
                                                   !.port = ha_get_external_address(p).port,
                                                   !.sessionid = p] >>
                   /\ info'[p].ha_status = ZBX_NODE_STATUS_ACTIVE
                   /\ info'[p].failover_delay = cfgDelay
                   /\ pc'[p] = "run"
                   /\ chan'[p] = chan[p]
          /\ HandleMessage(p) /\ NextMessage(p) = "update"
                => chan'[p] = Append(chan[p], StatusUpdate(info[p]))
          /\ ReceiveStatus(p) /\ pstat[p] = ZBX_NODE_STATUS_UNKNOWN
                /\ chan[p] = << StatusUpdate(info[p]) >>
                /\ info[p].ha_status = ZBX_NODE_STATUS_ACTIVE
                => /\ pstat'[p] = ZBX_NODE_STATUS_ACTIVE
                   /\ pdelay'[p] = info[p].failover_delay]_vars

ColdStartReceived ==
    \E p \in Procs :
        /\ now = 1
        /\ nodes = << [id |-> 1, name |-> cfgName[p], status |-> ZBX_NODE_STATUS_ACTIVE,
                       lastaccess |-> 1, address |-> CONFIG_NODE_ADDRESS[p].host,
                       port |-> ha_get_external_address(p).port, sessionid |-> p] >>
        /\ pstat[p] = ZBX_NODE_STATUS_ACTIVE
        /\ pdelay[p] = ZBX_HA_DEFAULT_FAILOVER_DELAY
        /\ requests = 0

(***************************************************************************)
(* Properties of the admission                                             *)
(***************************************************************************)
(* a row live at db_time for a manager that holds failover_delay delay *)
LiveFor(r, delay, db_time) ==
    /\ r.status \in {ZBX_NODE_STATUS_ACTIVE, ZBX_NODE_STATUS_STANDBY}
    /\ r.lastaccess + delay > db_time

(* some row of another node is live for p's manager *)
LivePeer(p) ==
    \E i \in 1..Len(nodes) :
        /\ nodes[i].id # info[p].ha_nodeid
        /\ LiveFor(nodes[i], info[p].failover_delay, now)

(* C11: a cluster node whose registration passes admission starts in       *)
(* active when no row of another node is live, and in standby otherwise.   *)
ClusterStart ==
    [][\A p \in Procs :
          /\ RegUpdate(p)
          /\ ZBX_HA_IS_CLUSTER(p)
          /\ info'[p].ha_status \in {ZBX_NODE_STATUS_ACTIVE, ZBX_NODE_STATUS_STANDBY}
          => info'[p].ha_status = IF LivePeer(p) THEN ZBX_NODE_STATUS_STANDBY
                                  ELSE ZBX_NODE_STATUS_ACTIVE]_vars

ClusterStartedStandby ==
    \E p \in Procs :
        /\ ZBX_HA_IS_CLUSTER(p)
        /\ pc[p] = "run"
        /\ ticks_num[p] = 0
        /\ info[p].ha_status = ZBX_NODE_STATUS_STANDBY
        /\ LivePeer(p)
        /\ \E i \in 1..Len(nodes) :
              /\ nodes[i].id = info[p].ha_nodeid
              /\ nodes[i].status = ZBX_NODE_STATUS_STANDBY
              /\ nodes[i].lastaccess = now

(* some row with a non-empty name is live at failover_delay delay *)
LiveNamed(delay) ==
    \E i \in 1..Len(nodes) :
        nodes[i].name # "" /\ LiveFor(nodes[i], delay, now)

(* some row with a non-empty name is not stopped and was accessed less     *)
(* than delay ago                                                          *)
RecentNamed(delay) ==
    \E i \in 1..Len(nodes) :
        /\ nodes[i].name # ""
        /\ nodes[i].status # ZBX_NODE_STATUS_STOPPED
        /\ nodes[i].lastaccess + delay > now

(* a transaction of the registration of a standalone node that runs the    *)
(* admission check and reaches the database from begin to commit           *)
StandaloneAdmission(p) ==
    /\ ~ZBX_HA_IS_CLUSTER(p)
    /\ link[p]
    /\ DbOk(info'[p].db_status)
    /\ \/ RegUpdate(p)
       \/ RegRead(p) /\ ha_find_node_by_name(nodes, cfgName[p]) = 0

(* C12, as stated: the registration of a node with an empty name succeeds  *)
(* exactly when no row with a non-empty name is live (status active or     *)
(* standby and lastaccess + failover_delay > db_time).                     *)
StandaloneAdmitted ==
    [][\A p \in Procs :
          StandaloneAdmission(p)
          => (info'[p].ha_status = ZBX_NODE_STATUS_ERROR
                <=> LiveNamed(info'[p].failover_delay))]_vars

(* C12, amended: the registration of a node with an empty name succeeds    *)
(* exactly when no row with a non-empty name is in a status other than     *)
(* stopped with lastaccess + failover_delay > db_time; a named row in      *)
(* status unavailable with a recent lastaccess blocks it.                  *)
StandaloneAdmittedUnlessRecent ==
    [][\A p \in Procs :
          StandaloneAdmission(p)
          => /\ info'[p].ha_status = ZBX_NODE_STATUS_ERROR
                   <=> RecentNamed(info'[p].failover_delay)
             /\ info'[p].ha_status = ZBX_NODE_STATUS_ERROR
                   => nodes' = nodes /\ op'[p] = "none" /\ pc'[p] = "pause"
             /\ info'[p].ha_status # ZBX_NODE_STATUS_ERROR
                   => \/ RegRead(p) /\ op'[p] = "insert"
                      \/ RegUpdate(p) /\ info'[p].ha_status = ZBX_NODE_STATUS_ACTIVE]_vars

StandaloneBlocked ==
    \E p \in Procs :
        /\ ~ZBX_HA_IS_CLUSTER(p)
        /\ pc[p] = "pause"
        /\ info[p].ha_status = ZBX_NODE_STATUS_ERROR
        /\ \E i \in 1..Len(nodes) :
              /\ nodes[i].name # ""
              /\ nodes[i].status = ZBX_NODE_STATUS_UNAVAILABLE
              /\ nodes[i].lastaccess = StartTime
              /\ info[p].error = <<"cannot change mode to standalone while HA node is",
                                    nodes[i].name, ZBX_NODE_STATUS_UNAVAILABLE>>

(* rows named like p that are live for p's manager and carry the session   *)
(* of another process                                                      *)
LiveDuplicates(p, delay) ==
    {i \in 1..Len(nodes) :
        /\ nodes[i].name = cfgName[p]
        /\ nodes[i].sessionid # p
        /\ LiveFor(nodes[i], delay, now)}

(* C13: when a process registers with a name for which a live row of       *)
(* another process exists, it inserts no row, leaves the table unchanged   *)
(* and ends in error with the reason "found <status> duplicate <name>      *)
(* node".                                                                  *)
DuplicateRejected ==
    [][\A p \in Procs :
          /\ ZBX_HA_IS_CLUSTER(p)
          /\ link[p]
          /\ DbOk(info'[p].db_status)
          /\ LiveDuplicates(p, info'[p].failover_delay) # {}
          /\ RegRead(p) \/ RegUpdate(p)
          => /\ nodes' = nodes
             /\ op'[p] # "insert"
             /\ RegRead(p) => op'[p] = "update" /\ info'[p].ha_status = ZBX_NODE_STATUS_UNKNOWN
             /\ RegUpdate(p)
                   => /\ info'[p].ha_status = ZBX_NODE_STATUS_ERROR
                      /\ \E i \in 1..Len(nodes) :
                            /\ nodes[i].name = cfgName[p]
                            /\ info'[p].error = <<"found duplicate node",
                                                  nodes[i].status, cfgName[p]>>
                      /\ pc'[p] = "pause"]_vars

DuplicateSeen ==
    \E p \in Procs :
        /\ pc[p] = "pause"
        /\ Len(nodes) = 1
        /\ LiveDuplicates(p, info[p].failover_delay) = {1}
        /\ info[p].error = <<"found duplicate node", nodes[1].status, cfgName[p]>>
        /\ info[p].ha_nodeid = nodes[1].id

(***************************************************************************)
(* Properties of the administrative requests                               *)
(***************************************************************************)
(* p's manager, in its tick loop, handles a request of this code and its   *)
(* transaction reaches the database                                        *)
Serves(p, code) ==
    /\ HandleMessage(p)
    /\ NextMessage(p) = code
    /\ DbOk(info'[p].db_status)

(* C14: RemoveNode(index) with index outside 1..N replies "node index out  *)
(* of range", with the index of a row in status active or standby it       *)
(* replies "node is active" or "node is standby"; in both cases nothing is *)
(* deleted and the table is unchanged.                                     *)
RemoveRejected ==
    [][\A p \in Procs :
          Serves(p, "remove_node")
          => LET index == Head(inbox[p]).data
             IN  /\ index \notin 1..Len(nodes)
                       => /\ reply'[p] = <<"remove_node", <<"node index out of range">> >>
                          /\ op'[p] = "none" /\ nodes' = nodes
                 /\ index \in 1..Len(nodes)
                       /\ nodes[index].status \in {ZBX_NODE_STATUS_ACTIVE, ZBX_NODE_STATUS_STANDBY}
                       => /\ reply'[p] = <<"remove_node", <<"node is", nodes[index].status>> >>
                          /\ op'[p] = "none" /\ nodes' = nodes]_vars

RemoveRefused ==
    \E p \in Procs :
        /\ reply[p] = <<"remove_node", <<"node is", ZBX_NODE_STATUS_ACTIVE>> >>
        /\ op[p] = "none"
        /\ inbox[p] = <<>>
        /\ ActiveRows(nodes) # {}

Sent(p) == SubSeq(chan'[p], Len(chan[p]) + 1, Len(chan'[p]))

(* C16: a paused manager never returns to the tick loop; until Stop a step *)
(* of its paused loop changes no status of any row, runs no liveness check *)
(* and sends no Heartbeat, and the only thing it writes to the registry is *)
(* lastaccess = db_time of its own row, and that only while its ha_status  *)
(* is active or standby.                                                   *)
PausedFrame ==
    [][\A p \in Procs :
          /\ pc[p] = "pause" => pc'[p] \in {"pause", "stopping", "crashed"}
          /\ PauseLoop(p)
                => /\ Len(nodes') = Len(nodes)
                   /\ \A i \in 1..Len(nodes) :
                         \/ nodes'[i] = nodes[i]
                         \/ /\ nodes[i].id = info[p].ha_nodeid
                            /\ info[p].ha_status \in {ZBX_NODE_STATUS_ACTIVE,
                                                       ZBX_NODE_STATUS_STANDBY}
                            /\ nodes'[i] = [nodes[i] EXCEPT !.lastaccess = now]
                   /\ info'[p].lastaccess_active = info[p].lastaccess_active
                   /\ info'[p].offline_ticks_active = info[p].offline_ticks_active
                   /\ info'[p].ha_status \in {info[p].ha_status, ZBX_NODE_STATUS_ERROR}
                   /\ \A k \in 1..Len(Sent(p)) : Sent(p)[k].code # "heartbeat"
                   /\ Len(chan[p]) <= Len(chan'[p])]_vars

PausedRefreshed ==
    \E p \in Procs :
        /\ pc[p] = "pause"
        /\ info[p].ha_status = ZBX_NODE_STATUS_ACTIVE
        /\ main_proc[p]
        /\ now > ZBX_HA_POLL_PERIOD
        /\ tick[p] = now + ZBX_HA_POLL_PERIOD
        /\ \E i \in 1..Len(nodes) :
              /\ nodes[i].id = info[p].ha_nodeid
              /\ nodes[i].status = ZBX_NODE_STATUS_ACTIVE
              /\ nodes[i].lastaccess = now

(***************************************************************************)
(* Properties of the audit log                                             *)
(***************************************************************************)
Ids(rows) == {rows[i].id : i \in 1..Len(rows)}

(* the rows a step inserts, changes or deletes *)
Mutated == {id \in Ids(nodes) \cup Ids(nodes') : RowsOf(nodes, id) # RowsOf(nodes', id)}

(* C17, as stated: every step writes one audit entry for each row it       *)
(* inserts, updates or deletes and one for the failover delay it updates,  *)
(* and none when it commits nothing.                                       *)
AuditAtomic ==
    [][Len(auditlog') = Len(auditlog) + Cardinality(Mutated)
                        + (IF cfgDelay' # cfgDelay THEN 1 ELSE 0)]_vars

(***************************************************************************)
(* Properties of the administrative requests                               *)
(***************************************************************************)
(* the reply to GetNodes lists the rows *)
Listed(p) == Len(reply[p]) = 3 /\ reply[p][1] = "get_nodes" /\ reply[p][2]

SetsDelay(p, d) ==
    /\ HandleMessage(p)
    /\ NextMessage(p) = "set_failover_delay"
    /\ Head(inbox[p]).data = d

(* C19: SetFailoverDelay(d) answers either with an empty error, and then   *)
(* the config row and the manager's failover_delay are d and the frame     *)
(* sent to the parent, which the parent receives next, is a StatusUpdate   *)
(* carrying d; or with "database error", which it does whenever the        *)
(* connection is down or a statement fails, and then the manager's         *)
(* failover_delay is unchanged.                                            *)
FailoverDelaySet ==
    [][\A p \in Procs : \A d \in NewDelays :
          /\ SetsDelay(p, d)
                => \/ /\ reply'[p] = <<"set_failover_delay", <<>> >>
                      /\ cfgDelay' = d
                      /\ info'[p].failover_delay = d
                      /\ chan'[p] = << [StatusUpdate(info'[p]) EXCEPT !.failover_delay = d] >>
                   \/ /\ reply'[p] = <<"set_failover_delay", <<"database error">> >>
                      /\ info'[p].failover_delay = info[p].failover_delay
          /\ SetsDelay(p, d) /\ (~DbOk(info[p].db_status) \/ ~link[p]
                                    \/ (faults' # faults /\ link'[p]))
                => reply'[p] = <<"set_failover_delay", <<"database error">> >>
          /\ ReceiveStatus(p) /\ reply[p] = <<"set_failover_delay", <<>> >>
                /\ Len(chan[p]) = 1 /\ Head(chan[p]).code = "update"
                /\ Head(chan[p]).failover_delay = d
                => pdelay'[p] = d]_vars

(* the parent holds the failover delay the administrator has set *)
FailoverDelayReceived ==
    \E p \in Procs : \E d \in NewDelays :
        /\ reply[p] = <<"set_failover_delay", <<>> >>
        /\ cfgDelay = d /\ d \notin FailoverDelays
        /\ info[p].failover_delay = d
        /\ pdelay[p] = d

(***************************************************************************)
(* Properties of the parent's receive loop                                 *)
(***************************************************************************)
Updates(q) == SelectSeq(q, LAMBDA f : f.code = "update")

(* the status of the last StatusUpdate of q, old when q has none *)
LastStatus(q, old) ==
    IF Updates(q) = <<>> THEN old ELSE Updates(q)[Len(Updates(q))].status

(* the frames of q up to and including the first StatusUpdate with status  *)
(* error, all of q when there is none                                      *)
UpToError(q) ==
    LET E == {i \in 1..Len(q) :
                 q[i].code = "update" /\ q[i].status = ZBX_NODE_STATUS_ERROR}
    IN  IF E = {} THEN q ELSE SubSeq(q, 1, CHOOSE i \in E : \A j \in E : i <= j)

(* st is old, or standby for old = active on a cluster node *)
Demoted(p, st, old) ==
    \/ st = old
    \/ /\ old = ZBX_NODE_STATUS_ACTIVE
       /\ ZBX_HA_IS_CLUSTER(p)
       /\ st = ZBX_NODE_STATUS_STANDBY

(* C20, as stated: ReceiveStatus leaves no frame pending and returns the   *)
(* status of the last StatusUpdate among the pending frames, the previous  *)
(* status when there is none, or standby in place of active.               *)
ReceiveDrainsAll ==
    [][\A p \in Procs :
          ReceiveStatus(p)
             => /\ chan'[p] = <<>>
                /\ Demoted(p, pstat'[p], LastStatus(chan[p], pstat[p]))]_vars

(* C20, amended: ReceiveStatus consumes the pending frames up to and       *)
(* including the first StatusUpdate with status error, all of them when    *)
(* there is none, and returns the status of the last StatusUpdate it       *)
(* consumed, the previous status when it consumed none, or standby in      *)
(* place of active.                                                        *)
ReceiveDrainsToError ==
    [][\A p \in Procs :
          ReceiveStatus(p)
             => /\ UpToError(chan[p]) \o chan'[p] = chan[p]
                /\ Demoted(p, pstat'[p], LastStatus(UpToError(chan[p]), pstat[p]))]_vars

(* the parent has read an error and left a frame pending *)
ReceiveStopped ==
    \E p \in Procs :
        /\ pstat[p] = ZBX_NODE_STATUS_ERROR
        /\ perr[p] # NoError
        /\ chan[p] # <<>>
        /\ last_hb[p] # 0

(***************************************************************************)
(* Properties of the error status                                          *)
(***************************************************************************)
(* C21: a call that sets an error on a manager whose ha_status is error    *)
(* leaves its error text and its ha_status as they are.                    *)
StickyError ==
    [][\A p \in Procs :
          info[p].ha_status = ZBX_NODE_STATUS_ERROR
             => /\ info'[p].error = info[p].error
                /\ info'[p].ha_status = ZBX_NODE_STATUS_ERROR]_vars

(* all calls were made on p and the last ones came with other texts *)
ErrorKept ==
    \E p \in Procs :
        /\ faults = 0
        /\ \A q \in Procs \ {p} : info[q] \in StartInfos
        /\ info[p].ha_status = ZBX_NODE_STATUS_ERROR
        /\ info[p].error = <<"the server HA registry record has changed ownership">>
        /\ info[p].db_status = "fail"

(***************************************************************************)
(* Properties of the failover                                              *)
(***************************************************************************)
(* the index of the row named as p is, 0 when there is none *)
OwnRow(p, rows) == ha_find_node_by_name(rows, cfgName[p])

(* the first row in status active other than the row of p, 0 when there is none *)
ActivePeer(p, rows) ==
    LET A == ActiveRows(rows) \ {OwnRow(p, rows)}
    IN  IF A = {} THEN 0 ELSE CHOOSE i \in A : \A j \in A : i <= j

(* C22: a tick of a standby node whose offline_ticks_active comes to       *)
(* exceed failover_delay/P + 1, and whose transaction is committed, sets   *)
(* the row of the active peer to unavailable and its own row to active;    *)
(* no tick of a standby node commits one of the two writes without the     *)
(* other.                                                                  *)
FailoverAtomic ==
    [][\A p \in Procs :
          LET k == OwnRow(p, nodes)
              i == ActivePeer(p, nodes)
          IN  LoopTick(p) /\ info[p].ha_status = ZBX_NODE_STATUS_STANDBY
                  /\ k # 0 /\ i # 0 /\ nodes[k].status = ZBX_NODE_STATUS_STANDBY
                => /\ Len(nodes') = Len(nodes)
                   /\ nodes'[k].status = ZBX_NODE_STATUS_ACTIVE
                         <=> nodes'[i].status = ZBX_NODE_STATUS_UNAVAILABLE
                   /\ nodes'[i].status \in {ZBX_NODE_STATUS_ACTIVE, ZBX_NODE_STATUS_UNAVAILABLE}
                   /\ nodes'[k].status \in {ZBX_NODE_STATUS_ACTIVE, ZBX_NODE_STATUS_STANDBY}
                   /\ (/\ info'[p].offline_ticks_active = info[p].offline_ticks_active + 1
                       /\ FailoverDue(info'[p])
                       /\ DbOk(info'[p].db_status))
                         => /\ nodes'[k].status = ZBX_NODE_STATUS_ACTIVE
                            /\ info'[p].ha_status = ZBX_NODE_STATUS_ACTIVE]_vars

(* a standby node has taken over from its stalled peer *)
TookOver ==
    \E i, j \in 1..Len(nodes) :
        /\ nodes[i].status = ZBX_NODE_STATUS_UNAVAILABLE
        /\ nodes[j].status = ZBX_NODE_STATUS_ACTIVE
        /\ \E p \in Procs :
              /\ FailoverDue(info[p])
              /\ info[p].ha_status = ZBX_NODE_STATUS_ACTIVE
              /\ nodes[j].sessionid = p

(* the tick of p runs the status check *)
CheckDue(p) == nextcheck[p] <= ticks_num[p] + 1

CheckCommitted(p) ==
    /\ LoopTick(p)
    /\ CheckDue(p)
    /\ info[p].ha_status \in {ZBX_NODE_STATUS_ACTIVE, ZBX_NODE_STATUS_STANDBY}
    /\ DbOk(info'[p].db_status)
    /\ info'[p].ha_status # ZBX_NODE_STATUS_ERROR

(* C24: a committed status check of the active cluster node sets every     *)
(* row of another node that is in status standby with db_time >=           *)
(* lastaccess + failover_delay to unavailable, and leaves every other row  *)
(* of another node as it is.                                               *)
StandbyEnforced ==
    [][\A p \in Procs :
          CheckCommitted(p) /\ ZBX_HA_IS_CLUSTER(p)
              /\ info[p].ha_status = ZBX_NODE_STATUS_ACTIVE
            => /\ Len(nodes') = Len(nodes)
               /\ \A i \in 1..Len(nodes) :
                     i # OwnRow(p, nodes)
                       => nodes'[i] =
                            IF /\ nodes[i].status = ZBX_NODE_STATUS_STANDBY
                               /\ now >= nodes[i].lastaccess + cfgDelay
                            THEN [nodes[i] EXCEPT !.status = ZBX_NODE_STATUS_UNAVAILABLE]
                            ELSE nodes[i]]_vars

(* the active node has set the row of a standby node to unavailable at the *)
(* second the row expired                                                  *)
StandbyMarked ==
    \E p, q \in Procs : \E i \in 1..Len(nodes) :
        /\ info[p].ha_status = ZBX_NODE_STATUS_ACTIVE
        /\ info[q].ha_status = ZBX_NODE_STATUS_STANDBY
        /\ nodes[i].sessionid = q
        /\ nodes[i].status = ZBX_NODE_STATUS_UNAVAILABLE
        /\ nodes[i].lastaccess + cfgDelay = now

(* C25, as stated: after a committed status check of any node every row in *)
(* status active or standby has lastaccess + failover_delay > db_time.     *)
LiveRowsFresh ==
    [][\A p \in Procs :
          CheckCommitted(p)
            => \A i \in 1..Len(nodes') :
                  nodes'[i].status \in {ZBX_NODE_STATUS_ACTIVE, ZBX_NODE_STATUS_STANDBY}
                    => nodes'[i].lastaccess + cfgDelay > now]_vars

(***************************************************************************)
(* Properties of the loop ticks                                            *)
(***************************************************************************)
(* seconds since the managers were started: the clock reads 1 at start *)
Elapsed == now - 1

(* p registered as a standby node at start and has not refreshed its row   *)
(* since                                                                   *)
StartedStandby(p) ==
    /\ pc[p] = "run"
    /\ info[p].ha_status = ZBX_NODE_STATUS_STANDBY
    /\ OwnRow(p, nodes) # 0
    /\ nodes[OwnRow(p, nodes)].sessionid = p
    /\ nodes[OwnRow(p, nodes)].lastaccess = now - Elapsed

(* the status check runs in this loop tick of p *)
CheckRun(p) == LoopTick(p) /\ CheckDue(p)

(* C26: a manager that starts in standby runs its first status check on    *)
(* its 10th loop tick (2P ticks, the first of them at start), that is 2P-1 *)
(* seconds after start, and does not become active before that check.      *)
StandbyFirstCheck ==
    [][\A p \in Procs :
          StartedStandby(p) /\ (CheckRun(p) \/ info'[p].ha_status = ZBX_NODE_STATUS_ACTIVE)
            => /\ CheckRun(p)
               /\ ticks_num'[p] >= 2 * ZBX_HA_POLL_PERIOD
               /\ Elapsed >= 2 * ZBX_HA_POLL_PERIOD - 1]_vars

(* C26, as stated: the first status check of a manager that starts in      *)
(* standby does not run before 2P seconds have passed since start.         *)
StandbyFirstCheckLate ==
    [][\A p \in Procs :
          StartedStandby(p) /\ CheckRun(p) => Elapsed >= 2 * ZBX_HA_POLL_PERIOD]_vars

(* a manager that started in standby has run its first status check on its *)
(* 10th loop tick while the active row had not advanced since start        *)
StandbyFirstChecked ==
    \E p \in Procs :
        /\ info[p].ha_status = ZBX_NODE_STATUS_STANDBY
        /\ ticks_num[p] = 2 * ZBX_HA_POLL_PERIOD
        /\ nextcheck[p] = 3 * ZBX_HA_POLL_PERIOD
        /\ OwnRow(p, nodes) # 0 /\ ActivePeer(p, nodes) # 0
        /\ nodes[OwnRow(p, nodes)].lastaccess = now
        /\ nodes[ActivePeer(p, nodes)].lastaccess = now - Elapsed
        /\ Elapsed = 2 * ZBX_HA_POLL_PERIOD - 1

(* C27: a status check whose transaction finds the database offline, at    *)
(* begin or at commit, leaves ha_status and the table of nodes as they     *)
(* were, sets db_status to down and does not set the error status.         *)
OfflineTickKeeps ==
    [][\A p \in Procs :
          (/\ CheckRun(p)
           /\ info[p].ha_status \in {ZBX_NODE_STATUS_ACTIVE, ZBX_NODE_STATUS_STANDBY}
           /\ ~link[p] \/ info'[p].db_status = "down")
            => /\ info'[p].db_status = "down"
               /\ info'[p].ha_status = info[p].ha_status
               /\ info'[p].error = NoError
               /\ nodes' = nodes
               /\ pc'[p] = "run"]_vars

(* the active node has lost the database on its first status check and     *)
(* is active still, and so is its row                                      *)
OfflineTickDone ==
    \E p \in Procs :
        /\ info[p].ha_status = ZBX_NODE_STATUS_ACTIVE
        /\ info[p].db_status = "down"
        /\ info[p].error = NoError
        /\ pc[p] = "run"
        /\ ticks_num[p] = ZBX_HA_POLL_PERIOD
        /\ nextcheck[p] = ZBX_HA_POLL_PERIOD + 1
        /\ OwnRow(p, nodes) # 0
        /\ nodes[OwnRow(p, nodes)].status = ZBX_NODE_STATUS_ACTIVE
        /\ nodes[OwnRow(p, nodes)].lastaccess < now

(* the status check of a loop tick of p returns in this step: the check of *)
(* ha_check_nodes, or the last step of a registration run by the loop      *)
CheckDone(p) ==
    /\ pc[p] = "run"
    /\ op'[p] = "none"
    /\ CheckRun(p) \/ op[p] \in {"create", "insert", "update"}

(* ha_status of p when the check that returns in this step began: a        *)
(* registration is run for status unknown only                            *)
OldStatus(p) ==
    IF op[p] = "none" THEN info[p].ha_status ELSE ZBX_NODE_STATUS_UNKNOWN

(* the row id of rows carries status st, written by p at this second *)
RowWritten(p, rows, id, st) ==
    \E i \in 1..Len(rows) :
        /\ rows[i].id = id
        /\ rows[i].status = st
        /\ rows[i].sessionid = p
        /\ rows[i].lastaccess = now

(* C28: a status check of the loop sends a StatusUpdate if and only if a   *)
(* parent is registered, the check changed ha_status and the new status is *)
(* not unknown.  The frame carries the new ha_status: active or standby as *)
(* the committed transaction of the check wrote it to the own row, or      *)
(* error, set by a check that left the table as it was.                    *)
StatusNotified ==
    [][\A p \in Procs :
          CheckDone(p)
            => LET u == Updates(Sent(p))
               IN  /\ u # <<>> <=> /\ main_proc[p]
                                   /\ info'[p].ha_status # OldStatus(p)
                                   /\ info'[p].ha_status # ZBX_NODE_STATUS_UNKNOWN
                   /\ Len(u) <= 1
                   /\ u # <<>>
                        => /\ u[1] = StatusUpdate(info'[p])
                           /\ IF u[1].status = ZBX_NODE_STATUS_ERROR
                              THEN nodes' = nodes
                              ELSE /\ DbOk(info'[p].db_status)
                                   /\ RowWritten(p, nodes', info'[p].ha_nodeid, u[1].status)]_vars

(* C28, as stated: the StatusUpdate sent by a status check carries the     *)
(* status that the committed transaction of the check produced.            *)
StatusCommitted ==
    [][\A p \in Procs :
          CheckDone(p) /\ Updates(Sent(p)) # <<>>
            => /\ DbOk(info'[p].db_status)
               /\ RowWritten(p, nodes', info'[p].ha_nodeid,
                             Updates(Sent(p))[1].status)]_vars

(* a status check of the loop has set the error status and the frame that  *)
(* reports it is on its way to the parent, the row of the node being as it *)
(* was                                                                     *)
ErrorNotified ==
    \E p \in Procs :
        /\ pc[p] = "pause"
        /\ ticks_num[p] >= ZBX_HA_POLL_PERIOD
        /\ info[p].ha_status = ZBX_NODE_STATUS_ERROR
        /\ main_proc[p]
        /\ chan[p] = << StatusUpdate(info[p]) >>
        /\ OwnRow(p, nodes) # 0
        /\ nodes[OwnRow(p, nodes)].status = ZBX_NODE_STATUS_ACTIVE

(* a loop tick of p ends in this step: a tick without a status check, or   *)
(* the step in which the status check of the tick returns                  *)
TickEnd(p) ==
    \/ CheckDone(p)
    \/ LoopTick(p) /\ ~CheckDue(p)

Heartbeats(q) == SelectSeq(q, LAMBDA f : f.code = "heartbeat")

(* C29: a loop tick sends one Heartbeat if a parent is registered, the     *)
(* db_status the tick ends with is ok and the tick has not set the error   *)
(* status, and none otherwise; no other step of the manager sends one.     *)
HeartbeatSent ==
    [][\A p \in Procs :
          /\ TickEnd(p)
               => Len(Heartbeats(Sent(p))) =
                    IF /\ main_proc[p]
                       /\ DbOk(info'[p].db_status)
                       /\ info'[p].ha_status # ZBX_NODE_STATUS_ERROR
                    THEN 1 ELSE 0
          /\ ~TickEnd(p) => Heartbeats(Sent(p)) = <<>>]_vars

(* C29, as stated: a loop tick sends a Heartbeat if and only if a parent   *)
(* is registered and db_status is ok at that tick.                         *)
HeartbeatIff ==
    [][\A p \in Procs :
          TickEnd(p)
            => (Heartbeats(Sent(p)) # <<>> <=> main_proc[p] /\ DbOk(info'[p].db_status))]_vars

(* a loop tick has set the error status with the database connected: the   *)
(* parent is sent the status and no heartbeat                              *)
HeartbeatWithheld ==
    \E p \in Procs :
        /\ pc[p] = "pause"
        /\ ticks_num[p] >= ZBX_HA_POLL_PERIOD
        /\ info[p].ha_status = ZBX_NODE_STATUS_ERROR
        /\ DbOk(info[p].db_status)
        /\ main_proc[p]
        /\ chan[p] = << StatusUpdate(info[p]) >>

(***************************************************************************)
(* Properties of the registration under an outage                          *)
(***************************************************************************)
(* p has no status and no node id yet *)
Unregistered(p) ==
    /\ info[p].ha_status = ZBX_NODE_STATUS_UNKNOWN
    /\ zbx_cuid_empty(info[p].ha_nodeid)

StatusSettled(p) ==
    info[p].ha_status \in {ZBX_NODE_STATUS_ACTIVE, ZBX_NODE_STATUS_STANDBY,
                           ZBX_NODE_STATUS_ERROR}

(* C30: a manager with status unknown and no node id keeps both while the  *)
(* database is unreachable: every status check it runs is a registration   *)
(* attempt, the next one is due on the next loop tick, and no tick sends a *)
(* StatusUpdate.  Once the database is reachable its status becomes        *)
(* active, standby or error, unless the connection is lost again.          *)
UnknownUntilReachable ==
    /\ [][\A p \in Procs :
             Unregistered(p) /\ ~link[p] /\ ~link'[p]
               => /\ Unregistered(p)'
                  /\ CheckRun(p) => op'[p] = "create"
                  /\ TickEnd(p) => Updates(Sent(p)) = <<>>
                  /\ CheckDone(p) => nextcheck'[p] = ticks_num'[p] + 1]_vars
    /\ \A p \in Procs :
          (link[p] /\ info[p].ha_status = ZBX_NODE_STATUS_UNKNOWN)
            ~> (StatusSettled(p) \/ ~link[p])

(* a manager that could not reach the database before has created its row *)
(* and registered on the loop tick of the second the database came back    *)
RegisteredLate ==
    \E p \in Procs :
        /\ link[p]
        /\ upSince[p] > ZBX_HA_POLL_PERIOD
        /\ now = upSince[p]
        /\ ticks_num[p] = upSince[p]
        /\ info[p].ha_status = ZBX_NODE_STATUS_ACTIVE
        /\ nextId = 2
        /\ nodes # <<>>
        /\ nodes[1].id = info[p].ha_nodeid
        /\ nodes[1].sessionid = p
        /\ nodes[1].lastaccess = now

(***************************************************************************)
(* Properties of the exit                                                  *)
(***************************************************************************)
(* a Stop of the parent is waiting in the queue of p *)
StopDelivered(p) == \E i \in 1..Len(inbox[p]) : inbox[p][i].code = "stop"

(* C31: once a Stop is delivered the manager exits, whatever its state:    *)
(* registering, ticking, paused, unknown with the database down or error.  *)
StopExits == \A p \in Procs : StopDelivered(p) ~> pc[p] = "exit"

(* a manager that never reached the database has been stopped and has      *)
(* exited with status unknown                                              *)
StoppedUnknown ==
    \E p \in Procs :
        /\ pc[p] = "exit"
        /\ ~link[p]
        /\ Unregistered(p)
        /\ ticks_num[p] > ZBX_HA_POLL_PERIOD
        /\ inbox[p] = <<>>

(***************************************************************************)
(* Properties of the replies.  The connection of the registered parent is  *)
(* chan, the connection of an administrative request is reply.             *)
(***************************************************************************)
(* p takes the message at the head of its queue in this step *)
Receives(p) == inbox[p] # <<>> /\ (HandleMessage(p) \/ PauseLoop(p))

(* the request p is serving when a reply goes out on reply in this step *)
Served(p) ==
    IF op[p] = "delete" THEN Msg("remove_node", 0)
    ELSE IF op[p] = "nodes" THEN Msg("get_nodes", 0)
    ELSE Head(inbox[p])

(* C32: a reply goes out on the connection its request came in on: the     *)
(* reply to GetNodes, RemoveNode and SetFailoverDelay on the connection of *)
(* the request and the StatusUpdate that answers RequestStatus on the      *)
(* connection of the registered parent, which is the one that asked.       *)
RepliesOnRequestHandle ==
    [][\A p \in Procs :
          /\ reply'[p] # reply[p]
               => /\ op[p] = "none" => Receives(p)
                  /\ Served(p).client = "admin"
                  /\ reply'[p][1] = Served(p).code
          /\ Receives(p) /\ Head(inbox[p]).code = "update" /\ Alive(p)'
               => /\ Head(inbox[p]).client = "parent"
                  /\ main_proc[p]
                  /\ Sent(p) = << StatusUpdate(info'[p]) >>
                  /\ reply'[p] = reply[p]
          /\ Receives(p) /\ Updates(Sent(p)) # <<>>
               => Head(inbox[p]).code \in {"update", "set_failover_delay"}]_vars

(* the parent has asked for the status of a standby node and the           *)
(* StatusUpdate is on its connection, the administrative one being unused  *)
StatusReplied ==
    \E p \in Procs :
        /\ requests = 0
        /\ inbox[p] = <<>>
        /\ reply[p] = <<>>
        /\ ticks_num[p] \notin {0, ZBX_HA_POLL_PERIOD, 2 * ZBX_HA_POLL_PERIOD}
        /\ tick[p] > now
        /\ info[p].ha_status = ZBX_NODE_STATUS_STANDBY
        /\ chan[p] = << StatusUpdate(info[p]) >>

(* ha_update_parent is called in this step of p with main_proc unset *)
SendsUnset(p) == ~main_proc[p] /\ pc[p] # "crashed" /\ pc'[p] = "crashed"

(* C33, as stated: while no parent has registered the manager sends no     *)
(* StatusUpdate and no Heartbeat, and a request handled before Register    *)
(* causes no send on the unset handle of the parent.                       *)
NoSendUnregistered ==
    [][\A p \in Procs :
          ~main_proc[p] => Sent(p) = <<>> /\ ~SendsUnset(p)]_vars

(***************************************************************************)
(* Properties of the status written by a check                             *)
(***************************************************************************)
(* index of the row of rows with node id id, 0 when there is none *)
RowOf(rows, id) ==
    LET S == {i \in 1..Len(rows) : rows[i].id = id}
    IN  IF S = {} THEN 0 ELSE CHOOSE i \in S : TRUE

(* C34: a committed status check of a manager that holds status active and *)
(* finds its own row in another status writes active to that row, whatever *)
(* the other rows are: a row of another node that is active stays active.  *)
ActiveRestored ==
    [][\A p \in Procs :
          LET k == RowOf(nodes, info[p].ha_nodeid)
          IN  (/\ CheckCommitted(p)
               /\ info[p].ha_status = ZBX_NODE_STATUS_ACTIVE
               /\ k # 0
               /\ nodes[k].status # ZBX_NODE_STATUS_ACTIVE)
                => /\ info'[p].ha_status = ZBX_NODE_STATUS_ACTIVE
                   /\ nodes'[k].status = ZBX_NODE_STATUS_ACTIVE
                   /\ nodes'[k].lastaccess = now
                   /\ \A i \in 1..Len(nodes) :
                         nodes[i].status = ZBX_NODE_STATUS_ACTIVE
                           => nodes'[i].status = ZBX_NODE_STATUS_ACTIVE]_vars

(* the node that lost the database is back and has set its row to active   *)
(* again next to the row of the peer that took over                        *)
TwoActiveRows ==
    \E p, q \in Procs :
        /\ p # q
        /\ info[p].ha_status = ZBX_NODE_STATUS_ACTIVE
        /\ info[q].ha_status = ZBX_NODE_STATUS_ACTIVE
        /\ RowOf(nodes, info[p].ha_nodeid) # 0
        /\ RowOf(nodes, info[q].ha_nodeid) # 0
        /\ nodes[RowOf(nodes, info[p].ha_nodeid)].status = ZBX_NODE_STATUS_ACTIVE
        /\ nodes[RowOf(nodes, info[q].ha_nodeid)].status = ZBX_NODE_STATUS_ACTIVE
        /\ nodes[RowOf(nodes, info[p].ha_nodeid)].lastaccess = now
        /\ nodes[RowOf(nodes, info[p].ha_nodeid)].sessionid = p
        /\ nodes[RowOf(nodes, info[q].ha_nodeid)].sessionid = q
        /\ info[q].offline_ticks_active > cfgDelay \div ZBX_HA_POLL_PERIOD + 1

(* the moves of ha_status within one manager process *)
Forward ==
    ({ZBX_NODE_STATUS_UNKNOWN}
        \X {ZBX_NODE_STATUS_ACTIVE, ZBX_NODE_STATUS_STANDBY, ZBX_NODE_STATUS_ERROR})
    \cup ({ZBX_NODE_STATUS_STANDBY} \X {ZBX_NODE_STATUS_ACTIVE, ZBX_NODE_STATUS_ERROR})
    \cup ({ZBX_NODE_STATUS_ACTIVE} \X {ZBX_NODE_STATUS_ERROR})

(* C35: the ha_status a manager holds in memory only moves forward: from   *)
(* unknown to active, standby or error, from standby to active or error,   *)
(* from active to error; never from active to standby, never out of error. *)
StatusForward ==
    [][\A p \in Procs :
          info'[p].ha_status # info[p].ha_status
            => << info[p].ha_status, info'[p].ha_status >> \in Forward]_vars

(* a manager that registered as standby has become active and its parent   *)
(* has been told                                                           *)
StandbyPromoted ==
    \E p \in Procs :
        /\ info[p].ha_status = ZBX_NODE_STATUS_ACTIVE
        /\ info[p].lastaccess_active # 0
        /\ info[p].offline_ticks_active > cfgDelay \div ZBX_HA_POLL_PERIOD + 1
        /\ pstat[p] = ZBX_NODE_STATUS_ACTIVE
        /\ chan[p] = <<>>

(***************************************************************************)
(* Properties of the rollback                                              *)
(***************************************************************************)
Raises(p) ==
    /\ info[p].ha_status # ZBX_NODE_STATUS_ERROR
    /\ info'[p].ha_status = ZBX_NODE_STATUS_ERROR

(* the row the manager inserted in the current second is still as inserted *)
InsertedNow(p) ==
    \E i \in 1..Len(nodes) :
        /\ nodes[i].id = info[p].ha_nodeid
        /\ nodes[i].status = ZBX_NODE_STATUS_STOPPED
        /\ nodes[i].sessionid = 0
        /\ nodes[i].lastaccess = now

(* C36: the transaction in which a manager raises a fatal error is rolled  *)
(* back: the step that sets ha_status to error leaves the node table as it *)
(* was, including the rows the transaction had marked unavailable.  The    *)
(* row a registration inserted and committed in its first transaction is   *)
(* not part of that transaction and stays.                                 *)
ErrorRollsBack ==
    [][\A p \in Procs : Raises(p) => nodes' = nodes]_vars

(* C36 as stated: a registration tick of the loop that ends in a fatal     *)
(* error leaves no row it inserted in the table                            *)
TickRollsBack ==
    [][\A p \in Procs :
          (RegUpdate(p) /\ pc[p] = "run" /\ Raises(p)) => ~InsertedNow(p)]_vars

(* an active node whose check found an expired standby row and whose       *)
(* statement failed: the standby row is still standby and the own row was  *)
(* not refreshed                                                           *)
CheckRolledBack ==
    \E p \in Procs :
        /\ info[p].ha_status = ZBX_NODE_STATUS_ERROR
        /\ info[p].db_status = "fail"
        /\ link[p]
        /\ RowOf(nodes, info[p].ha_nodeid) # 0
        /\ nodes[RowOf(nodes, info[p].ha_nodeid)].status = ZBX_NODE_STATUS_ACTIVE
        /\ nodes[RowOf(nodes, info[p].ha_nodeid)].lastaccess < now
        /\ tick[p] = now + 1
        /\ \E i \in 1..Len(nodes) :
              /\ nodes[i].status = ZBX_NODE_STATUS_STANDBY
              /\ StandbyExpired(info[p], nodes[i], now)

(***************************************************************************)
(* Properties of a manager in status error                                 *)
(***************************************************************************)
Failed(p) == info[p].ha_status = ZBX_NODE_STATUS_ERROR

(* C37: a manager whose ha_status is error writes nothing to the registry: *)
(* no step of its loops and no exit changes the node table, and while it   *)
(* is in error the row it registered, if in status active or standby,     *)
(* keeps that status in every step unless the step sets it to unavailable. *)
ErrorWritesNothing ==
    [][\A p \in Procs :
          Failed(p) =>
              /\ (Registry(p) \/ Exit(p)) => nodes' = nodes
              /\ \A i \in 1..Len(nodes) :
                    (/\ nodes[i].id = info[p].ha_nodeid
                     /\ nodes[i].sessionid = p
                     /\ nodes[i].status \in {ZBX_NODE_STATUS_ACTIVE, ZBX_NODE_STATUS_STANDBY})
                    => /\ i <= Len(nodes')
                       /\ nodes'[i].id = nodes[i].id
                       /\ nodes'[i].status \in {nodes[i].status,
                                                ZBX_NODE_STATUS_UNAVAILABLE}]_vars

(* a manager in error has exited, and its row, never set to stopped, was   *)
(* marked unavailable by its peer                                          *)
FailedRowExpired ==
    \E p \in Procs :
        /\ Failed(p)
        /\ pc[p] = "exit"
        /\ RowOf(nodes, info[p].ha_nodeid) # 0
        /\ nodes[RowOf(nodes, info[p].ha_nodeid)].status = ZBX_NODE_STATUS_UNAVAILABLE
        /\ nodes[RowOf(nodes, info[p].ha_nodeid)].sessionid = p

(***************************************************************************)
(* Properties of a manager whose row was removed                           *)
(***************************************************************************)
RowAbsent(p) == ha_find_node_by_name(nodes, cfgName[p]) = 0

NotFound(p) == <<"cannot find server node", cfgName[p]>>

(* the step read the node table: the connection was up and no statement failed *)
TableRead(p) == link[p] /\ info'[p].db_status = "ok"

(* C38: a status check of a registered manager, or the second transaction  *)
(* of a registration whose admission check passes, that reads a table      *)
(* without a row of the manager's name sets ha_status to error with reason *)
(* 'cannot find server node' and writes no row.  The first transaction of  *)
(* a registration inserts a row when it finds none.                        *)
AbsentRowFatal ==
    [][\A p \in Procs :
          (/\ RowAbsent(p)
           /\ TableRead(p)
           /\ \/ CheckRun(p) /\ info[p].ha_status # ZBX_NODE_STATUS_UNKNOWN
              \/ RegUpdate(p) /\ Admission(p, info[p], nodes, now).ret)
          => /\ info'[p].ha_status = ZBX_NODE_STATUS_ERROR
             /\ info'[p].error = NotFound(p)
             /\ nodes' = nodes
             /\ nextId' = nextId]_vars

(* C38 as stated: a manager that holds the id of a row that is no longer   *)
(* in the table inserts no row                                             *)
AbsentRowNotInserted ==
    [][\A p \in Procs :
          (/\ ~zbx_cuid_empty(info[p].ha_nodeid)
           /\ RowOf(nodes, info[p].ha_nodeid) = 0
           /\ RowAbsent(p))
          => ~(RegInsert(p) /\ Len(nodes') > Len(nodes))]_vars

(* a registered manager whose status check missed its row *)
RowMissed ==
    \E p \in Procs :
        /\ info[p].ha_status = ZBX_NODE_STATUS_ERROR
        /\ info[p].error = NotFound(p)
        /\ RowAbsent(p)
        /\ ~zbx_cuid_empty(info[p].ha_nodeid)
        /\ ticks_num[p] >= 2 * ZBX_HA_POLL_PERIOD

(***************************************************************************)
(* Properties of the failover counter                                      *)
(***************************************************************************)
CounterOf(inf) == << inf.lastaccess_active, inf.offline_ticks_active >>

(* the first row in status active, 0 when there is none *)
FirstActive(rows) ==
    IF ActiveRows(rows) = {} THEN 0
    ELSE CHOOSE i \in ActiveRows(rows) : \A j \in ActiveRows(rows) : i <= j

(* the check of this step compares the active row of a peer with the       *)
(* lastaccess the standby saw before                                       *)
PeerCompared(p) ==
    /\ CheckRun(p)
    /\ info[p].ha_status = ZBX_NODE_STATUS_STANDBY
    /\ link[p]
    /\ info'[p].db_status # "fail"
    /\ OwnRow(p, nodes) # 0
    /\ SessionOwned(p, nodes[OwnRow(p, nodes)])
    /\ FirstActive(nodes) # 0
    /\ nodes[FirstActive(nodes)].name # ""
    /\ nodes[FirstActive(nodes)].id # info[p].ha_nodeid

(* C39: lastaccess_active and offline_ticks_active of a manager change     *)
(* only in a status check it runs as standby with the database connected;  *)
(* a check skipped because the connection is down leaves them as they      *)
(* were, and a check that compared the active row keeps the count (one     *)
(* more for the lastaccess seen before, 0 for another) also when its       *)
(* commit loses the connection.                                            *)
CounterFrame ==
    [][\A p \in Procs :
          /\ CounterOf(info'[p]) # CounterOf(info[p])
                => /\ CheckRun(p)
                   /\ info[p].ha_status = ZBX_NODE_STATUS_STANDBY
                   /\ link[p]
          /\ (CheckRun(p) /\ ~link[p]) => CounterOf(info'[p]) = CounterOf(info[p])
          /\ (PeerCompared(p) /\ info'[p].db_status = "down")
                => CounterOf(info'[p]) =
                      IF nodes[FirstActive(nodes)].lastaccess = info[p].lastaccess_active
                      THEN << info[p].lastaccess_active, info[p].offline_ticks_active + 1 >>
                      ELSE << nodes[FirstActive(nodes)].lastaccess, 0 >>]_vars

(* a standby has counted an offline tick on its third check, the commit of *)
(* which lost the connection                                               *)
CountKept ==
    \E p \in Procs :
        /\ info[p].ha_status = ZBX_NODE_STATUS_STANDBY
        /\ info[p].db_status = "down"
        /\ info[p].offline_ticks_active = 1
        /\ ticks_num[p] = 3 * ZBX_HA_POLL_PERIOD
        /\ nextcheck[p] = ticks_num[p] + 1

====
